---- MODULE Spec2Model ----
(***************************************************************************)
(* B+Tree over a paged, memory-mapped file (7thCode/BPTree).               *)
(*                                                                         *)
(* Two engines live in the repository and both are modelled:               *)
(*   - the single-key engine (uint64 key -> uint64 value, one root,        *)
(*     meta format version 1), and                                         *)
(*   - the composite multi-root engine ((key1,key2) -> value, a root       *)
(*     table, meta format version 2).                                      *)
(* A page is a record; code indices are 0-based, sequences are 1-based,    *)
(* so entry i of the code is element i+1 of the sequence.                  *)
(***************************************************************************)
EXTENDS Integers, Sequences, FiniteSets, TLC

(***************************************************************************)
(* Bounds of the model.                                                    *)
(***************************************************************************)
\* keys of the single-key engine are 0..MaxKey
MaxKey == 8
\* values are 0 (a legal value) and MaxVal
MaxVal == 1
\* number of mutating operations in one behaviour
MaxOps == 2
\* the smaller number of operations of the scan specification
MaxScanOps == 1
\* number of keys inserted again after a teardown
MaxRefill == 4
\* trees of at most this many keys are torn down in every order
MaxDrainAny == 5
\* number of composite keys (key1, key2)
MaxPairs == 6
\* operations of a behaviour of the composite engine
MaxMultiOps == 4
MaxPersistOps == 3
MaxIsolationOps == 6
\* operations of a behaviour on the root directory
MaxRootOps == 4
MaxRootPairs == 3
MaxChurnOps == 7
MaxChurnPairs == 4
MaxGrowKey == 12
MaxGrowDeletes == 1
\* keys and write operations of a concurrent behaviour
MaxThreadKey == 3
MaxThreadOps == 4
MaxThreadPairs == 4
MaxMultiThreadOps == 4
MaxAllocs == 9
MaxPagerPages == 9
MaxPagerFrees == 3
MaxStored == 1
MaxLeafKey == 4
MaxNextLeaf == 2
MaxNodeKey == 5
MaxChildID == 3
MaxRangeOps == 1
MaxRangeKey == 1

Keys == 0..MaxKey
Values == {0, MaxVal}

(***************************************************************************)
(* Program constants.  The node capacities are scaled down from the        *)
(* source (255 / 254) keeping their parity, so that splits, borrows and    *)
(* merges happen with a handful of keys.                                   *)
(***************************************************************************)
MaxLeafKeys == 3
MinLeafKeys == MaxLeafKeys \div 2
MaxInternalKeys == 4
MinInternalKeys == MaxInternalKeys \div 2
NodeTypeInternal == 0
NodeTypeLeaf == 1
\* stands for ^uint64(0), the top of the key order (TLC integers are 32 bit)
MaxUint64 == 2147483647
Magic == 1112560722
Version == 1
PageSize == 4096
\* pages in the initial mapping: 256 in the source (1 MiB), scaled down so
\* that the mapping grows, and is replaced, after a few allocations
InitialPages == 4
InitialFileSize == InitialPages * PageSize
GrowthFactor == 2

(***************************************************************************)
(* Pages.  A zeroed page reads as an internal node with no keys.  keys2    *)
(* is the second key of the entries of a composite leaf.                   *)
(***************************************************************************)
ZeroPage ==
  [type |-> 0, keys |-> <<>>, keys2 |-> <<>>, vals |-> <<>>, children |-> <<>>,
   next |-> 0, freeNext |-> 0, panic |-> FALSE]

GetNodeType(data) == data.type
GetKeyCount(data) == Len(data.keys)
getNextLeaf(data) == data.next
setNextLeaf(data, n) == [data EXCEPT !.next = n]

InsertAt(s, idx, x) == SubSeq(s, 1, idx) \o <<x>> \o SubSeq(s, idx + 1, Len(s))
RemoveAt(s, idx) == SubSeq(s, 1, idx) \o SubSeq(s, idx + 2, Len(s))

(***************************************************************************)
(* sort.Search(n, f): the binary search of the Go library, over the        *)
(* sequence flags of the values f(0) .. f(n-1).                            *)
(***************************************************************************)
RECURSIVE SearchLoop(_, _, _)
SearchLoop(flags, i, j) ==
  IF i < j
  THEN LET h == (i + j) \div 2
       IN IF ~flags[h + 1] THEN SearchLoop(flags, h + 1, j)
                           ELSE SearchLoop(flags, i, h)
  ELSE i

sortSearch(n, flags) == SearchLoop(flags, 0, n)

(***************************************************************************)
(* Leaf node of the single-key engine.                                     *)
(***************************************************************************)
NewLeafNode(data) == [ZeroPage EXCEPT !.type = NodeTypeLeaf]

\* mutant: a leaf counts as full only above its capacity
Leaf_IsFull_Above(n) == GetKeyCount(n) > MaxLeafKeys

Leaf_IsFull(n) == GetKeyCount(n) >= MaxLeafKeys

Leaf_Search(n, key) ==
  LET count == GetKeyCount(n)
      At(idx) == [idx |-> idx, found |-> idx < count /\ n.keys[idx + 1] = key]
  IN At(sortSearch(count, [i \in 1..count |-> n.keys[i] >= key]))

\* mutant: the value 0 is taken for "no value"
Leaf_Get_ZeroSentinel(n, key) ==
  LET At(s) == IF ~s.found \/ n.vals[s.idx + 1] = 0 THEN [value |-> 0, found |-> FALSE]
               ELSE [value |-> n.vals[s.idx + 1], found |-> TRUE]
  IN At(Leaf_Search(n, key))

Leaf_Get(n, key) ==
  LET At(s) == IF ~s.found THEN [value |-> 0, found |-> FALSE]
               ELSE [value |-> n.vals[s.idx + 1], found |-> TRUE]
  IN At(Leaf_Search(n, key))

\* mutant: a new key is appended after the last entry
Leaf_Put_Append(n, key, value) ==
  LET At(s) ==
        IF s.found THEN [n EXCEPT !.vals[s.idx + 1] = value]
        ELSE IF GetKeyCount(n) >= MaxLeafKeys THEN [n EXCEPT !.panic = TRUE]
        ELSE [n EXCEPT !.keys = Append(n.keys, key), !.vals = Append(n.vals, value)]
  IN At(Leaf_Search(n, key))

\* the value Put returns: true when a new key was inserted
Leaf_PutInserted(n, key) == ~Leaf_Search(n, key).found

Leaf_Put(n, key, value) ==
  LET At(s) ==
        IF s.found THEN [n EXCEPT !.vals[s.idx + 1] = value]
        ELSE IF GetKeyCount(n) >= MaxLeafKeys THEN [n EXCEPT !.panic = TRUE]
        ELSE [n EXCEPT !.keys = InsertAt(n.keys, s.idx, key),
                       !.vals = InsertAt(n.vals, s.idx, value)]
  IN At(Leaf_Search(n, key))

Leaf_Delete(n, key) ==
  LET At(s) ==
        IF ~s.found THEN [node |-> n, deleted |-> FALSE]
        ELSE [node |-> [n EXCEPT !.keys = RemoveAt(n.keys, s.idx),
                                 !.vals = RemoveAt(n.vals, s.idx)],
              deleted |-> TRUE]
  IN At(Leaf_Search(n, key))

\* mutant: the separator returned is the last key of the left half
Leaf_Split_LastOfLeft(n) ==
  LET count == GetKeyCount(n)
      mid == count \div 2
      newNode == [NewLeafNode(ZeroPage) EXCEPT
                    !.keys = SubSeq(n.keys, mid + 1, count),
                    !.vals = SubSeq(n.vals, mid + 1, count),
                    !.next = n.next]
  IN [key |-> n.keys[mid],
      node |-> [n EXCEPT !.keys = SubSeq(n.keys, 1, mid),
                         !.vals = SubSeq(n.vals, 1, mid)],
      newNode |-> newNode]

\* mutant: the new leaf is not linked to the successor of the old one
Leaf_Split_Unlinked(n) ==
  LET count == GetKeyCount(n)
      mid == count \div 2
      newNode == [NewLeafNode(ZeroPage) EXCEPT
                    !.keys = SubSeq(n.keys, mid + 1, count),
                    !.vals = SubSeq(n.vals, mid + 1, count)]
  IN [key |-> newNode.keys[1],
      node |-> [n EXCEPT !.keys = SubSeq(n.keys, 1, mid),
                         !.vals = SubSeq(n.vals, 1, mid)],
      newNode |-> newNode]

Leaf_Split(n) ==
  LET count == GetKeyCount(n)
      mid == count \div 2
      newNode == [NewLeafNode(ZeroPage) EXCEPT
                    !.keys = SubSeq(n.keys, mid + 1, count),
                    !.vals = SubSeq(n.vals, mid + 1, count),
                    !.next = n.next]
  IN [key |-> newNode.keys[1],
      node |-> [n EXCEPT !.keys = SubSeq(n.keys, 1, mid),
                         !.vals = SubSeq(n.vals, 1, mid)],
      newNode |-> newNode]

RECURSIVE Leaf_RangeLoop(_, _, _, _)
Leaf_RangeLoop(n, i, end, results) ==
  IF i < GetKeyCount(n)
  THEN IF n.keys[i + 1] > end THEN results
       ELSE Leaf_RangeLoop(n, i + 1, end,
              Append(results, [Key |-> n.keys[i + 1], Value |-> n.vals[i + 1]]))
  ELSE results

Leaf_Range(n, start, end) ==
  Leaf_RangeLoop(n, Leaf_Search(n, start).idx, end, <<>>)

Leaf_IsUnderflow(n) == GetKeyCount(n) < MinLeafKeys
Leaf_CanLendTo(n) == GetKeyCount(n) > MinLeafKeys

Leaf_BorrowFromRight(n, right) ==
  LET key == right.keys[1]
      value == right.vals[1]
      After(right2) ==
        [node |-> [n EXCEPT !.keys = Append(n.keys, key),
                            !.vals = Append(n.vals, value)],
         right |-> right2,
         key |-> right2.keys[1]]
  IN After(Leaf_Delete(right, key).node)

\* mutant: the separator returned is the key left last in the left sibling
Leaf_BorrowFromLeft_LastOfLeft(n, left) ==
  LET leftCount == GetKeyCount(left)
      node == [n EXCEPT !.keys = <<left.keys[leftCount]>> \o n.keys,
                        !.vals = <<left.vals[leftCount]>> \o n.vals]
  IN [node |-> node,
      left |-> [left EXCEPT !.keys = SubSeq(left.keys, 1, leftCount - 1),
                            !.vals = SubSeq(left.vals, 1, leftCount - 1)],
      key |-> left.keys[leftCount - 1]]

Leaf_BorrowFromLeft(n, left) ==
  LET leftCount == GetKeyCount(left)
      node == [n EXCEPT !.keys = <<left.keys[leftCount]>> \o n.keys,
                        !.vals = <<left.vals[leftCount]>> \o n.vals]
  IN [node |-> node,
      left |-> [left EXCEPT !.keys = SubSeq(left.keys, 1, leftCount - 1),
                            !.vals = SubSeq(left.vals, 1, leftCount - 1)],
      key |-> node.keys[1]]

\* mutant: the merged leaf keeps its old next-leaf pointer
Leaf_MergeWith_KeepNext(n, right) ==
  [n EXCEPT !.keys = n.keys \o right.keys,
            !.vals = n.vals \o right.vals]

Leaf_MergeWith(n, right) ==
  [n EXCEPT !.keys = n.keys \o right.keys,
            !.vals = n.vals \o right.vals,
            !.next = right.next]

(***************************************************************************)
(* Internal node (shared by both engines; the composite engine stores      *)
(* key1 only as separator).                                                *)
(***************************************************************************)
NewInternalNode(data) == [ZeroPage EXCEPT !.type = NodeTypeInternal]

Internal_IsFull(n) == GetKeyCount(n) >= MaxInternalKeys
GetChild(n, i) == n.children[i + 1]

\* mutant: the first key greater than or equal to the search key
Internal_Search_GE(n, key) ==
  LET count == GetKeyCount(n)
  IN sortSearch(count, [i \in 1..count |-> n.keys[i] >= key])

Internal_Search(n, key) ==
  LET count == GetKeyCount(n)
  IN sortSearch(count, [i \in 1..count |-> n.keys[i] > key])

GetChildForKey(n, key) == GetChild(n, Internal_Search(n, key))

Internal_Insert(n, key, rightChild) ==
  LET count == GetKeyCount(n)
      At(idx) == [n EXCEPT !.keys = InsertAt(n.keys, idx, key),
                           !.children = InsertAt(n.children, idx + 1, rightChild)]
  IN IF count >= MaxInternalKeys THEN n
     ELSE At(sortSearch(count, [i \in 1..count |-> n.keys[i] > key]))

\* mutant: the two children are stored in the other order
InitRoot_Swapped(n, leftChild, rightChild, key) ==
  [n EXCEPT !.type = NodeTypeInternal,
            !.keys = <<key>>,
            !.children = <<rightChild, leftChild>>]

InitRoot(n, leftChild, rightChild, key) ==
  [n EXCEPT !.type = NodeTypeInternal,
            !.keys = <<key>>,
            !.children = <<leftChild, rightChild>>]

\* mutant: the middle key stays in the left node
Internal_Split_KeepsMid(n) ==
  LET count == GetKeyCount(n)
      mid == count \div 2
  IN [key |-> n.keys[mid + 1],
      node |-> [n EXCEPT !.keys = SubSeq(n.keys, 1, mid + 1),
                         !.children = SubSeq(n.children, 1, mid + 1)],
      newNode |-> [NewInternalNode(ZeroPage) EXCEPT
                     !.keys = SubSeq(n.keys, mid + 2, count),
                     !.children = SubSeq(n.children, mid + 2, count + 1)]]

Internal_Split(n) ==
  LET count == GetKeyCount(n)
      mid == count \div 2
  IN [key |-> n.keys[mid + 1],
      node |-> [n EXCEPT !.keys = SubSeq(n.keys, 1, mid),
                         !.children = SubSeq(n.children, 1, mid + 1)],
      newNode |-> [NewInternalNode(ZeroPage) EXCEPT
                     !.keys = SubSeq(n.keys, mid + 2, count),
                     !.children = SubSeq(n.children, mid + 2, count + 1)]]

GetKeyAt(n, idx) == n.keys[idx + 1]
SetKeyAt(n, idx, key) == [n EXCEPT !.keys[idx + 1] = key]
Internal_IsUnderflow(n) == GetKeyCount(n) < MinInternalKeys
Internal_CanLendTo(n) == GetKeyCount(n) > MinInternalKeys

DeleteKeyAt(n, idx) ==
  [n EXCEPT !.keys = RemoveAt(n.keys, idx),
            !.children = RemoveAt(n.children, idx + 1)]

Internal_BorrowFromRight(n, right, parentKey) ==
  [node |-> [n EXCEPT !.keys = Append(n.keys, parentKey),
                      !.children = Append(n.children, GetChild(right, 0))],
   right |-> [right EXCEPT !.keys = Tail(right.keys),
                           !.children = Tail(right.children)],
   key |-> right.keys[1]]

Internal_BorrowFromLeft(n, left, parentKey) ==
  LET leftCount == GetKeyCount(left)
  IN [node |-> [n EXCEPT !.keys = <<parentKey>> \o n.keys,
                         !.children = <<GetChild(left, leftCount)>> \o n.children],
      left |-> [left EXCEPT !.keys = SubSeq(left.keys, 1, leftCount - 1),
                            !.children = SubSeq(left.children, 1, leftCount)],
      key |-> left.keys[leftCount]]

Internal_MergeWith(n, right, parentKey) ==
  [n EXCEPT !.keys = (n.keys \o <<parentKey>>) \o right.keys,
            !.children = n.children \o right.children]

(***************************************************************************)
(* Pager of the single-key engine (meta format version 1).  A store st is  *)
(* the pager with its mapping: meta is the in-memory MetaPage, page0 the   *)
(* serialized meta page in the file, pages the pages 1.. of the file and   *)
(* size the mapped size in bytes.                                          *)
(***************************************************************************)
NilPage == [ZeroPage EXCEPT !.type = -1]
IsNil(data) == data.type = -1

\* the meta page as a function from byte offset to the integer stored there
ZeroMeta == [o \in {0, 4, 8, 16, 24} |-> 0]

Serialize(m, buf) ==
  [buf EXCEPT ![0] = m.Magic, ![4] = m.Version, ![8] = m.RootPage,
              ![16] = m.PageCount, ![24] = m.FreeList]

Deserialize(buf) ==
  [Magic |-> buf[0], Version |-> buf[4], RootPage |-> buf[8],
   PageCount |-> buf[16], FreeList |-> buf[24]]

Slice(st, id) ==
  IF id * PageSize + PageSize > st.size THEN NilPage
  ELSE IF id = 0 THEN ZeroPage
  ELSE IF id <= Len(st.pages) THEN st.pages[id]
  ELSE ZeroPage

GetPage(st, id) == Slice(st, id)

\* a write through the window of page id
SetPage(st, id, data) == [st EXCEPT !.pages[id] = data]

writeMeta(st) == [st EXCEPT !.page0 = Serialize(st.meta, st.page0)]

loadOrInitMeta(st) ==
  LET m == Deserialize(st.page0)
  IN IF m.Magic = 0
     THEN [st |-> writeMeta([st EXCEPT !.meta =
                    [Magic |-> Magic, Version |-> Version, RootPage |-> 0,
                     PageCount |-> 1, FreeList |-> 0]]),
           err |-> "none"]
     ELSE IF m.Magic # Magic THEN [st |-> st, err |-> "bad magic"]
     ELSE IF m.Version # Version THEN [st |-> st, err |-> "unsupported version"]
     ELSE [st |-> [st EXCEPT !.meta = m], err |-> "none"]

\* mutant: the file grows by the missing bytes only
GrowSize_Exact(newSize, requiredSize) == requiredSize

RECURSIVE GrowSize(_, _)
GrowSize(newSize, requiredSize) ==
  IF newSize < requiredSize THEN GrowSize(newSize * GrowthFactor, requiredSize)
  ELSE newSize

\* mutant: a page taken from the free list is returned as it is
AllocatePage_NotCleared(st) ==
  IF st.meta.FreeList # 0
  THEN LET pageID == st.meta.FreeList
           nextFree == Slice(st, pageID).freeNext
       IN [st |-> writeMeta([st EXCEPT !.meta.FreeList = nextFree]), id |-> pageID]
  ELSE LET newPageID == st.meta.PageCount
           requiredSize == (newPageID + 1) * PageSize
           st1 == IF requiredSize > st.size
                  THEN [st EXCEPT !.size = GrowSize(st.size * GrowthFactor, requiredSize)]
                  ELSE st
           st2 == IF newPageID > Len(st1.pages)
                  THEN [st1 EXCEPT !.pages = Append(st1.pages, ZeroPage)]
                  ELSE st1
       IN [st |-> writeMeta([st2 EXCEPT !.meta.PageCount = newPageID + 1]),
           id |-> newPageID]

AllocatePage(st) ==
  IF st.meta.FreeList # 0
  THEN LET pageID == st.meta.FreeList
           nextFree == Slice(st, pageID).freeNext
           st1 == writeMeta([st EXCEPT !.meta.FreeList = nextFree])
       IN [st |-> SetPage(st1, pageID, ZeroPage), id |-> pageID]
  ELSE LET newPageID == st.meta.PageCount
           requiredSize == (newPageID + 1) * PageSize
           st1 == IF requiredSize > st.size
                  THEN [st EXCEPT !.size = GrowSize(st.size * GrowthFactor, requiredSize)]
                  ELSE st
           st2 == IF newPageID > Len(st1.pages)
                  THEN [st1 EXCEPT !.pages = Append(st1.pages, ZeroPage)]
                  ELSE st1
       IN [st |-> writeMeta([st2 EXCEPT !.meta.PageCount = newPageID + 1]),
           id |-> newPageID]

\* mutant: the previous head of the free list is not stored in the page
FreePage_NoLink(st, id) ==
  IF IsNil(Slice(st, id)) THEN st
  ELSE LET st1 == SetPage(st, id, ZeroPage)
       IN writeMeta([st1 EXCEPT !.meta.FreeList = id])

FreePage(st, id) ==
  IF IsNil(Slice(st, id)) THEN st
  ELSE LET st1 == SetPage(st, id, [ZeroPage EXCEPT !.freeNext = st.meta.FreeList])
       IN writeMeta([st1 EXCEPT !.meta.FreeList = id])

RootPage(st) == st.meta.RootPage
SetRootPage(st, id) == writeMeta([st EXCEPT !.meta.RootPage = id])
PageCount(st) == st.meta.PageCount
Checkpoint(st) == writeMeta(st)

\* a file that was never opened: all zero, InitialFileSize long
FreshFile == [meta |-> Deserialize(ZeroMeta), page0 |-> ZeroMeta,
              pages |-> <<>>, size |-> InitialFileSize]

Open(file) == loadOrInitMeta([file EXCEPT !.meta = Deserialize(ZeroMeta)])

(***************************************************************************)
(* Tree of the single-key engine.  Every operation takes the store and     *)
(* returns the store it leaves, with its results.                          *)
(***************************************************************************)
RECURSIVE search(_, _, _)
search(st, pageID, key) ==
  LET data == GetPage(st, pageID)
  IN IF IsNil(data) THEN [value |-> 0, found |-> FALSE]
     ELSE IF GetNodeType(data) = NodeTypeLeaf THEN Leaf_Get(data, key)
     ELSE search(st, GetChildForKey(data, key), key)

Find(st, key) ==
  LET rootID == RootPage(st)
  IN IF rootID = 0 THEN [value |-> 0, found |-> FALSE]
     ELSE search(st, rootID, key)

insertLeaf(st, pageID, key, value) ==
  LET leaf == GetPage(st, pageID)
      \* the split: a is the allocation, sp the halves of the re-read leaf
      Place(a, sp) ==
        LET newPageID == a.id
            splitKey == sp.key
            leaf1 == IF key < splitKey THEN Leaf_Put(sp.node, key, value) ELSE sp.node
            newLeaf1 == IF key < splitKey THEN sp.newNode
                        ELSE Leaf_Put(sp.newNode, key, value)
            newLeaf2 == setNextLeaf(newLeaf1, getNextLeaf(leaf1))
            leaf2 == setNextLeaf(leaf1, newPageID)
        IN [st |-> SetPage(SetPage(a.st, pageID, leaf2), newPageID, newLeaf2),
            key |-> splitKey, id |-> newPageID]
      Split(a) == Place(a, Leaf_Split(GetPage(a.st, pageID)))
  IN IF ~Leaf_IsFull(leaf)
     THEN [st |-> SetPage(st, pageID, Leaf_Put(leaf, key, value)), key |-> 0, id |-> 0]
     ELSE IF Leaf_Get(leaf, key).found
     THEN [st |-> SetPage(st, pageID, Leaf_Put(leaf, key, value)), key |-> 0, id |-> 0]
     ELSE Split(AllocatePage(st))

RECURSIVE insert(_, _, _, _)
insertInternal(st, pageID, key, value) ==
  LET \* the split: r is the result of the child, a the allocation
      Place(r, a, sp) ==
        LET newPageID == a.id
            midKey == sp.key
            internal1 == IF r.key < midKey
                         THEN Internal_Insert(sp.node, r.key, r.id)
                         ELSE sp.node
            newInternal1 == IF r.key < midKey THEN sp.newNode
                            ELSE Internal_Insert(sp.newNode, r.key, r.id)
        IN [st |-> SetPage(SetPage(a.st, pageID, internal1), newPageID, newInternal1),
            key |-> midKey, id |-> newPageID]
      Split(r, a) == Place(r, a, Internal_Split(GetPage(a.st, pageID)))
      \* r: what the insert into the child returned (splitKey, newChildID)
      After(r) ==
        LET internal == GetPage(r.st, pageID)
        IN IF r.id = 0 THEN [st |-> r.st, key |-> 0, id |-> 0]
           ELSE IF ~Internal_IsFull(internal)
           THEN [st |-> SetPage(r.st, pageID, Internal_Insert(internal, r.key, r.id)),
                 key |-> 0, id |-> 0]
           ELSE Split(r, AllocatePage(r.st))
  IN After(insert(st, GetChildForKey(GetPage(st, pageID), key), key, value))

insert(st, pageID, key, value) ==
  LET data == GetPage(st, pageID)
  IN IF IsNil(data) THEN [st |-> st, key |-> 0, id |-> 0]
     ELSE IF GetNodeType(data) = NodeTypeLeaf THEN insertLeaf(st, pageID, key, value)
     ELSE insertInternal(st, pageID, key, value)

Insert(st, key, value) ==
  LET rootID == RootPage(st)
      \* the first leaf, in the page of allocation a
      FirstLeaf(a) ==
        SetRootPage(SetPage(a.st, a.id,
                            Leaf_Put(NewLeafNode(GetPage(a.st, a.id)), key, value)),
                    a.id)
      \* a new root over the old root and the page r.id split off it
      NewRoot(r, a) ==
        SetRootPage(SetPage(a.st, a.id,
                            InitRoot(NewInternalNode(GetPage(a.st, a.id)),
                                     rootID, r.id, r.key)),
                    a.id)
      After(r) == IF r.id # 0 THEN NewRoot(r, AllocatePage(r.st)) ELSE r.st
  IN IF rootID = 0 THEN FirstLeaf(AllocatePage(st))
     ELSE After(insert(st, rootID, key, value))

\* mutant: the right sibling is asked to lend before the left one
handleUnderflow_RightFirst(st, parentID, childIdx) ==
  LET parent == GetPage(st, parentID)
      childID == GetChild(parent, childIdx)
      child == GetPage(st, childID)
      isLeaf == GetNodeType(child) = NodeTypeLeaf
      leftSibID == GetChild(parent, childIdx - 1)
      leftSib == GetPage(st, leftSibID)
      rightSibID == GetChild(parent, childIdx + 1)
      rightSib == GetPage(st, rightSibID)
      canRight == /\ childIdx < GetKeyCount(parent)
                  /\ IF isLeaf THEN Leaf_CanLendTo(rightSib)
                               ELSE Internal_CanLendTo(rightSib)
      canLeft == /\ ~canRight
                 /\ childIdx > 0
                 /\ IF isLeaf THEN Leaf_CanLendTo(leftSib) ELSE Internal_CanLendTo(leftSib)
  IN IF canLeft
     THEN LET Store(b) ==
                SetPage(SetPage(SetPage(st, childID, b.node), leftSibID, b.left),
                        parentID, SetKeyAt(parent, childIdx - 1, b.key))
          IN Store(IF isLeaf THEN Leaf_BorrowFromLeft(child, leftSib)
                   ELSE Internal_BorrowFromLeft(child, leftSib,
                                                GetKeyAt(parent, childIdx - 1)))
     ELSE IF canRight
     THEN LET Store(b) ==
                SetPage(SetPage(SetPage(st, childID, b.node), rightSibID, b.right),
                        parentID, SetKeyAt(parent, childIdx, b.key))
          IN Store(IF isLeaf THEN Leaf_BorrowFromRight(child, rightSib)
                   ELSE Internal_BorrowFromRight(child, rightSib,
                                                 GetKeyAt(parent, childIdx)))
     ELSE IF childIdx > 0
     THEN LET merged == IF isLeaf THEN Leaf_MergeWith(leftSib, child)
                        ELSE Internal_MergeWith(leftSib, child,
                                                GetKeyAt(parent, childIdx - 1))
              st1 == SetPage(st, leftSibID, merged)
              st2 == SetPage(st1, parentID, DeleteKeyAt(parent, childIdx - 1))
          IN FreePage(st2, childID)
     ELSE LET merged == IF isLeaf THEN Leaf_MergeWith(child, rightSib)
                        ELSE Internal_MergeWith(child, rightSib,
                                                GetKeyAt(parent, childIdx))
              st1 == SetPage(st, childID, merged)
              st2 == SetPage(st1, parentID, DeleteKeyAt(parent, childIdx))
          IN FreePage(st2, rightSibID)

\* handleUnderflow(parent, childIdx, parentData): parent is the window of
\* page parentID, so every parent.X(...) is a write to that page
handleUnderflow(st, parentID, childIdx) ==
  LET parent == GetPage(st, parentID)
      childID == GetChild(parent, childIdx)
      child == GetPage(st, childID)
      isLeaf == GetNodeType(child) = NodeTypeLeaf
      leftSibID == GetChild(parent, childIdx - 1)
      leftSib == GetPage(st, leftSibID)
      rightSibID == GetChild(parent, childIdx + 1)
      rightSib == GetPage(st, rightSibID)
      canLeft == /\ childIdx > 0
                 /\ IF isLeaf THEN Leaf_CanLendTo(leftSib) ELSE Internal_CanLendTo(leftSib)
      canRight == /\ childIdx < GetKeyCount(parent)
                  /\ IF isLeaf THEN Leaf_CanLendTo(rightSib)
                               ELSE Internal_CanLendTo(rightSib)
  IN IF canLeft
     THEN LET Store(b) ==
                SetPage(SetPage(SetPage(st, childID, b.node), leftSibID, b.left),
                        parentID, SetKeyAt(parent, childIdx - 1, b.key))
          IN Store(IF isLeaf THEN Leaf_BorrowFromLeft(child, leftSib)
                   ELSE Internal_BorrowFromLeft(child, leftSib,
                                                GetKeyAt(parent, childIdx - 1)))
     ELSE IF canRight
     THEN LET Store(b) ==
                SetPage(SetPage(SetPage(st, childID, b.node), rightSibID, b.right),
                        parentID, SetKeyAt(parent, childIdx, b.key))
          IN Store(IF isLeaf THEN Leaf_BorrowFromRight(child, rightSib)
                   ELSE Internal_BorrowFromRight(child, rightSib,
                                                 GetKeyAt(parent, childIdx)))
     ELSE IF childIdx > 0
     THEN LET merged == IF isLeaf THEN Leaf_MergeWith(leftSib, child)
                        ELSE Internal_MergeWith(leftSib, child,
                                                GetKeyAt(parent, childIdx - 1))
              st1 == SetPage(st, leftSibID, merged)
              st2 == SetPage(st1, parentID, DeleteKeyAt(parent, childIdx - 1))
          IN FreePage(st2, childID)
     ELSE LET merged == IF isLeaf THEN Leaf_MergeWith(child, rightSib)
                        ELSE Internal_MergeWith(child, rightSib,
                                                GetKeyAt(parent, childIdx))
              st1 == SetPage(st, childID, merged)
              st2 == SetPage(st1, parentID, DeleteKeyAt(parent, childIdx))
          IN FreePage(st2, rightSibID)

RECURSIVE deleteRecursive(_, _, _)
\* mutant: descends by "first separator >= key", so that a key equal to a
\* separator goes to the child on its left
deleteRecursive_GE(st, pageID, key) ==
  LET data == GetPage(st, pageID)
      InLeaf(d) ==
        [st |-> SetPage(st, pageID, d.node), deleted |-> d.deleted,
         underflow |-> d.deleted /\ Leaf_IsUnderflow(d.node)]
      Fixed(st1) ==
        [st |-> st1, deleted |-> TRUE,
         underflow |-> Internal_IsUnderflow(GetPage(st1, pageID))]
      \* r: what the delete in child childIdx returned
      After(childIdx, r) ==
        IF ~r.deleted THEN [st |-> r.st, deleted |-> FALSE, underflow |-> FALSE]
        ELSE IF ~r.underflow THEN [st |-> r.st, deleted |-> TRUE, underflow |-> FALSE]
        ELSE Fixed(handleUnderflow(r.st, pageID, childIdx))
      Descend(childIdx) ==
        After(childIdx, deleteRecursive(st, GetChild(data, childIdx), key))
  IN IF IsNil(data) THEN [st |-> st, deleted |-> FALSE, underflow |-> FALSE]
     ELSE IF GetNodeType(data) = NodeTypeLeaf THEN InLeaf(Leaf_Delete(data, key))
     ELSE Descend(sortSearch(GetKeyCount(data), [i \in 1..GetKeyCount(data) |-> data.keys[i] >= key]))

deleteRecursive(st, pageID, key) ==
  LET data == GetPage(st, pageID)
      InLeaf(d) ==
        [st |-> SetPage(st, pageID, d.node), deleted |-> d.deleted,
         underflow |-> d.deleted /\ Leaf_IsUnderflow(d.node)]
      Fixed(st1) ==
        [st |-> st1, deleted |-> TRUE,
         underflow |-> Internal_IsUnderflow(GetPage(st1, pageID))]
      \* r: what the delete in child childIdx returned
      After(childIdx, r) ==
        IF ~r.deleted THEN [st |-> r.st, deleted |-> FALSE, underflow |-> FALSE]
        ELSE IF ~r.underflow THEN [st |-> r.st, deleted |-> TRUE, underflow |-> FALSE]
        ELSE Fixed(handleUnderflow(r.st, pageID, childIdx))
      Descend(childIdx) ==
        After(childIdx, deleteRecursive(st, GetChild(data, childIdx), key))
  IN IF IsNil(data) THEN [st |-> st, deleted |-> FALSE, underflow |-> FALSE]
     ELSE IF GetNodeType(data) = NodeTypeLeaf THEN InLeaf(Leaf_Delete(data, key))
     ELSE Descend(Internal_Search(data, key))

\* mutant: an internal root left without keys stays the root
Delete_KeepsEmptyRoot(st, key) ==
  LET rootID == RootPage(st)
      After(r) ==
        LET rootData == GetPage(r.st, rootID)
        IN IF ~r.deleted THEN [st |-> r.st, deleted |-> FALSE]
           ELSE IF GetNodeType(rootData) = NodeTypeInternal
           THEN [st |-> r.st, deleted |-> TRUE]
           ELSE IF GetKeyCount(rootData) = 0
                THEN [st |-> FreePage(SetRootPage(r.st, 0), rootID), deleted |-> TRUE]
                ELSE [st |-> r.st, deleted |-> TRUE]
  IN IF rootID = 0 THEN [st |-> st, deleted |-> FALSE]
     ELSE After(deleteRecursive(st, rootID, key))

Delete(st, key) ==
  LET rootID == RootPage(st)
      After(r) ==
        LET rootData == GetPage(r.st, rootID)
        IN IF ~r.deleted THEN [st |-> r.st, deleted |-> FALSE]
           ELSE IF GetNodeType(rootData) = NodeTypeInternal
           THEN IF GetKeyCount(rootData) = 0
                THEN [st |-> FreePage(SetRootPage(r.st, GetChild(rootData, 0)), rootID),
                      deleted |-> TRUE]
                ELSE [st |-> r.st, deleted |-> TRUE]
           ELSE IF GetKeyCount(rootData) = 0
                THEN [st |-> FreePage(SetRootPage(r.st, 0), rootID), deleted |-> TRUE]
                ELSE [st |-> r.st, deleted |-> TRUE]
  IN IF rootID = 0 THEN [st |-> st, deleted |-> FALSE]
     ELSE After(deleteRecursive(st, rootID, key))

(***************************************************************************)
(* Range scan.  The callback fn returns false on its stopAt-th invocation  *)
(* (stopAt = 0: it always returns true).  calls lists the invocations of   *)
(* fn in order; err is "none" when scanInternal returns nil.  fuel bounds  *)
(* the walk of the leaf chain: a walk that exhausts it never returns.      *)
(***************************************************************************)
RECURSIVE findLeaf(_, _, _)
findLeaf(st, pageID, key) ==
  LET data == GetPage(st, pageID)
  IN IF IsNil(data) THEN 0
     ELSE IF GetNodeType(data) = NodeTypeLeaf THEN pageID
     ELSE findLeaf(st, GetChildForKey(data, key), key)

RECURSIVE scanLoop(_, _, _, _, _, _, _)
\* mutant: a false return of fn ends the scan only after the current leaf
scanLoop_StopAfterLeaf(st, leafID, start, end, stopAt, calls, fuel) ==
  LET Visit(leaf, all) ==
        IF stopAt # 0 /\ Len(all) >= stopAt
        THEN [calls |-> all, err |-> "none"]
        ELSE IF GetKeyCount(leaf) > 0 /\ leaf.keys[GetKeyCount(leaf)] >= end
        THEN [calls |-> all, err |-> "none"]
        ELSE scanLoop(st, getNextLeaf(leaf), start, end, stopAt, all, fuel - 1)
      At(leaf) ==
        IF IsNil(leaf) THEN [calls |-> calls, err |-> "failed to get page"]
        ELSE Visit(leaf, calls \o Leaf_Range(leaf, start, end))
  IN IF leafID = 0 THEN [calls |-> calls, err |-> "none"]
     ELSE IF fuel = 0 THEN [calls |-> calls, err |-> "diverges"]
     ELSE At(GetPage(st, leafID))

scanLoop(st, leafID, start, end, stopAt, calls, fuel) ==
  LET Visit(leaf, all) ==
        IF stopAt # 0 /\ Len(all) >= stopAt
        THEN [calls |-> SubSeq(all, 1, stopAt), err |-> "none"]
        ELSE IF GetKeyCount(leaf) > 0 /\ leaf.keys[GetKeyCount(leaf)] >= end
        THEN [calls |-> all, err |-> "none"]
        ELSE scanLoop(st, getNextLeaf(leaf), start, end, stopAt, all, fuel - 1)
      At(leaf) ==
        IF IsNil(leaf) THEN [calls |-> calls, err |-> "failed to get page"]
        ELSE Visit(leaf, calls \o Leaf_Range(leaf, start, end))
  IN IF leafID = 0 THEN [calls |-> calls, err |-> "none"]
     ELSE IF fuel = 0 THEN [calls |-> calls, err |-> "diverges"]
     ELSE At(GetPage(st, leafID))

scanInternal(st, start, end, stopAt) ==
  LET rootID == RootPage(st)
  IN IF rootID = 0 THEN [calls |-> <<>>, err |-> "none"]
     ELSE scanLoop(st, findLeaf(st, rootID, start), start, end, stopAt, <<>>,
                   Len(st.pages) + 1)

FindRange(st, start, end, stopAt) == scanInternal(st, start, end, stopAt)
Count(st) == Len(scanInternal(st, 0, MaxUint64, 0).calls)

(***************************************************************************)
(* Pager of the composite multi-root engine (package bpager, meta format   *)
(* version 2).  A store c is the pager with its mapping: meta the          *)
(* in-memory MetaPage, page0 the serialized meta page, pages the pages 1.. *)
(* of the file, size the mapped size in bytes, mapped whether the mapping  *)
(* exists (false after Close).                                             *)
(***************************************************************************)
bp_Version == 2
\* scaled down from 500
MaxRoots == 2
RootIDs == 0..(MaxRoots - 1)
ReservedMarker == MaxUint64

\* byte offsets of the meta page: Magic, Version, RootCount, PageCount,
\* FreeList, and the root table from offset 40 on
MetaOffsets == {8, 12, 16, 24, 32} \cup {40 + 8 * i : i \in RootIDs}
bp_ZeroMeta == [o \in MetaOffsets |-> 0]

bp_Serialize(m, buf) ==
  [o \in DOMAIN buf |->
     IF o = 8 THEN m.Magic
     ELSE IF o = 12 THEN m.Version
     ELSE IF o = 16 THEN m.RootCount
     ELSE IF o = 24 THEN m.PageCount
     ELSE IF o = 32 THEN m.FreeList
     ELSE IF (o - 40) \div 8 < MaxRoots THEN m.RootTable[(o - 40) \div 8]
     ELSE buf[o]]

\* mutant: the root table is read one slot further
bp_Deserialize_ShiftedTable(buf) ==
  [Magic |-> buf[8], Version |-> buf[12], RootCount |-> buf[16],
   PageCount |-> buf[24], FreeList |-> buf[32],
   RootTable |-> [i \in RootIDs |->
                    IF 40 + 8 * (i + 1) \in DOMAIN buf THEN buf[40 + 8 * (i + 1)]
                    ELSE 0]]

bp_Deserialize(buf) ==
  [Magic |-> buf[8], Version |-> buf[12], RootCount |-> buf[16],
   PageCount |-> buf[24], FreeList |-> buf[32],
   RootTable |-> [i \in RootIDs |-> buf[40 + 8 * i]]]

Meta_GetRootPage(m, rootID) ==
  IF rootID >= MaxRoots THEN 0 ELSE m.RootTable[rootID]

Meta_SetRootPage(m, rootID, pageID) ==
  IF rootID >= MaxRoots THEN [m |-> m, ok |-> FALSE]
  ELSE [m |-> [m EXCEPT !.RootTable[rootID] = pageID], ok |-> TRUE]

bp_Slice(c, id) ==
  IF ~c.mapped THEN NilPage
  ELSE IF id * PageSize + PageSize > c.size THEN NilPage
  ELSE IF id = 0 THEN ZeroPage
  ELSE IF id <= Len(c.pages) THEN c.pages[id]
  ELSE ZeroPage

bp_GetPage(c, id) == bp_Slice(c, id)

\* a write through the window of page id
bp_SetPage(c, id, data) == [c EXCEPT !.pages[id] = data]

bp_writeMeta(c) == [c EXCEPT !.page0 = bp_Serialize(c.meta, c.page0)]

bp_loadOrInitMeta(c) ==
  LET Loaded(m) ==
        IF m.Magic = 0
        THEN [st |-> bp_writeMeta([c EXCEPT !.meta =
                       [m EXCEPT !.Magic = Magic, !.Version = bp_Version,
                                 !.RootCount = 0, !.PageCount = 1, !.FreeList = 0]]),
              err |-> "none"]
        ELSE IF m.Magic # Magic THEN [st |-> [c EXCEPT !.meta = m], err |-> "bad magic"]
        ELSE IF m.Version # bp_Version
        THEN [st |-> [c EXCEPT !.meta = m], err |-> "unsupported version"]
        ELSE [st |-> [c EXCEPT !.meta = m], err |-> "none"]
  IN IF IsNil(bp_Slice(c, 0)) THEN [st |-> c, err |-> "failed to read meta page"]
     ELSE Loaded(bp_Deserialize(c.page0))

\* a file that was never opened: empty, extended to InitialFileSize by Open
bp_FreshFile == [page0 |-> bp_ZeroMeta, pages |-> <<>>, size |-> 0]

\* file: the bytes on disk (page0, pages) and the length of the file
bp_Open(file) ==
  bp_loadOrInitMeta(
    [meta |-> bp_Deserialize(bp_ZeroMeta), page0 |-> file.page0, pages |-> file.pages,
     size |-> IF file.size < InitialFileSize THEN InitialFileSize ELSE file.size,
     mapped |-> TRUE])

bp_Close(c) == [c EXCEPT !.mapped = FALSE]

\* the file a closed or open pager leaves on disk
FileOf(c) == [page0 |-> c.page0, pages |-> c.pages, size |-> c.size]

\* mutant: AllocatePage that reuses the head of the free list without
\* taking it off the list
bp_AllocatePage_KeepsHead(c) ==
  IF c.meta.FreeList # 0
  THEN [st |-> bp_SetPage(bp_writeMeta(c), c.meta.FreeList,
                          [ZeroPage EXCEPT !.freeNext =
                             bp_Slice(c, c.meta.FreeList).freeNext]),
        id |-> c.meta.FreeList]
  ELSE LET newPageID == c.meta.PageCount
           requiredSize == (newPageID + 1) * PageSize
           Grown(c1) ==
             IF newPageID > Len(c1.pages)
             THEN [c1 EXCEPT !.pages = Append(c1.pages, ZeroPage)]
             ELSE c1
       IN [st |-> bp_writeMeta(
                    [Grown(IF requiredSize > c.size
                           THEN [c EXCEPT !.size =
                                   GrowSize(c.size * GrowthFactor, requiredSize)]
                           ELSE c)
                       EXCEPT !.meta.PageCount = newPageID + 1]),
           id |-> newPageID]

bp_AllocatePage(c) ==
  IF c.meta.FreeList # 0
  THEN LET pageID == c.meta.FreeList
           Unlink(nextFree) ==
             bp_SetPage(bp_writeMeta([c EXCEPT !.meta.FreeList = nextFree]),
                        pageID, ZeroPage)
       IN [st |-> Unlink(bp_Slice(c, pageID).freeNext), id |-> pageID]
  ELSE LET newPageID == c.meta.PageCount
           requiredSize == (newPageID + 1) * PageSize
           Grown(c1) ==
             IF newPageID > Len(c1.pages)
             THEN [c1 EXCEPT !.pages = Append(c1.pages, ZeroPage)]
             ELSE c1
           Counted(c2) == bp_writeMeta([c2 EXCEPT !.meta.PageCount = newPageID + 1])
       IN [st |-> Counted(Grown(
                    IF requiredSize > c.size
                    THEN [c EXCEPT !.size = GrowSize(c.size * GrowthFactor, requiredSize)]
                    ELSE c)),
           id |-> newPageID]

\* what getNextLeaf reads in a freed page: the free-list link is stored big
\* endian in bytes 0..7 and the next-leaf pointer is read from bytes 3..10,
\* so a link f < 256 reads as f * 2^32 (little endian) or f * 2^24 (big
\* endian), in both cases a page beyond the file
FreeLinkAsNextLeaf(f) == IF f = 0 THEN 0 ELSE MaxUint64

bp_FreePage(c, id) ==
  IF IsNil(bp_Slice(c, id)) THEN c
  ELSE bp_writeMeta(
         [bp_SetPage(c, id, [ZeroPage EXCEPT !.freeNext = c.meta.FreeList,
                                            !.next = FreeLinkAsNextLeaf(c.meta.FreeList)])
            EXCEPT !.meta.FreeList = id])

bp_GetRootPage(c, rootID) ==
  LET page == Meta_GetRootPage(c.meta, rootID)
  IN IF page = ReservedMarker THEN 0 ELSE page

bp_SetRootPage(c, rootID, pageID) ==
  LET Set(r) == IF ~r.ok THEN [st |-> c, err |-> "invalid rootID"]
                ELSE [st |-> bp_writeMeta([c EXCEPT !.meta = r.m]), err |-> "none"]
  IN Set(Meta_SetRootPage(c.meta, rootID, pageID))

\* mutant: the last root ID whose slot of the root table is 0
FirstFreeSlot_Last(m, from) ==
  IF \A i \in RootIDs : m.RootTable[i] # 0 THEN MaxRoots
  ELSE CHOOSE i \in RootIDs :
         /\ m.RootTable[i] = 0
         /\ \A j \in RootIDs : m.RootTable[j] = 0 => j <= i

\* the first root ID i >= from whose slot of the root table is 0
RECURSIVE FirstFreeSlot(_, _)
FirstFreeSlot(m, from) ==
  IF from >= MaxRoots THEN MaxRoots
  ELSE IF m.RootTable[from] = 0 THEN from
  ELSE FirstFreeSlot(m, from + 1)

bp_CreateRoot(c) ==
  LET Take(i) ==
        IF i >= MaxRoots THEN [st |-> c, id |-> 0, err |-> "maximum roots reached"]
        ELSE [st |-> bp_writeMeta([c EXCEPT !.meta.RootTable[i] = ReservedMarker,
                                            !.meta.RootCount = c.meta.RootCount + 1]),
              id |-> i, err |-> "none"]
  IN Take(FirstFreeSlot(c.meta, 0))

\* mutant: DeleteRoot that also puts the root page on the free list
bp_DeleteRoot_FreesRoot(c, rootID) ==
  IF rootID >= MaxRoots THEN [st |-> c, err |-> "invalid rootID"]
  ELSE IF c.meta.RootTable[rootID] # 0
  THEN LET freed == IF c.meta.RootTable[rootID] = ReservedMarker THEN c
                    ELSE bp_FreePage(c, c.meta.RootTable[rootID])
       IN [st |-> bp_writeMeta(
                    [freed EXCEPT !.meta.RootTable[rootID] = 0,
                                  !.meta.RootCount = IF c.meta.RootCount > 0
                                                     THEN c.meta.RootCount - 1
                                                     ELSE c.meta.RootCount]),
           err |-> "none"]
  ELSE [st |-> c, err |-> "none"]

bp_DeleteRoot(c, rootID) ==
  IF rootID >= MaxRoots THEN [st |-> c, err |-> "invalid rootID"]
  ELSE IF c.meta.RootTable[rootID] # 0
  THEN [st |-> bp_writeMeta(
                 [c EXCEPT !.meta.RootTable[rootID] = 0,
                           !.meta.RootCount = IF c.meta.RootCount > 0
                                              THEN c.meta.RootCount - 1
                                              ELSE c.meta.RootCount]),
        err |-> "none"]
  ELSE [st |-> c, err |-> "none"]

bp_RootCount(c) == c.meta.RootCount
bp_PageCount(c) == c.meta.PageCount
bp_Checkpoint(c) == bp_writeMeta(c)

(***************************************************************************)
(* Leaf node of the composite engine: entry i is (keys[i], keys2[i],       *)
(* vals[i]), ordered by compareKeys.                                       *)
(***************************************************************************)
\* scaled down from 170
bn_MaxLeafKeys == 2
bn_MinLeafKeys == bn_MaxLeafKeys \div 2

bn_NewLeafNode(data) == [ZeroPage EXCEPT !.type = NodeTypeLeaf]
bn_IsFull(n) == GetKeyCount(n) >= bn_MaxLeafKeys

compareKeys(a1, a2, b1, b2) ==
  IF a1 < b1 THEN -1
  ELSE IF a1 > b1 THEN 1
  ELSE IF a2 < b2 THEN -1
  ELSE IF a2 > b2 THEN 1
  ELSE 0

bn_Search(n, key1, key2) ==
  LET count == GetKeyCount(n)
      At(idx) == [idx |-> idx,
                  found |-> idx < count /\ n.keys[idx + 1] = key1
                                        /\ n.keys2[idx + 1] = key2]
  IN At(sortSearch(count,
          [i \in 1..count |-> compareKeys(n.keys[i], n.keys2[i], key1, key2) >= 0]))

bn_Get(n, key1, key2) ==
  LET At(s) == IF ~s.found THEN [value |-> 0, found |-> FALSE]
               ELSE [value |-> n.vals[s.idx + 1], found |-> TRUE]
  IN At(bn_Search(n, key1, key2))

bn_Put(n, key1, key2, value) ==
  LET At(s) ==
        IF s.found THEN [n EXCEPT !.vals[s.idx + 1] = value]
        ELSE IF GetKeyCount(n) >= bn_MaxLeafKeys THEN [n EXCEPT !.panic = TRUE]
        ELSE [n EXCEPT !.keys = InsertAt(n.keys, s.idx, key1),
                       !.keys2 = InsertAt(n.keys2, s.idx, key2),
                       !.vals = InsertAt(n.vals, s.idx, value)]
  IN At(bn_Search(n, key1, key2))

bn_Delete(n, key1, key2) ==
  LET At(s) ==
        IF ~s.found THEN [node |-> n, deleted |-> FALSE]
        ELSE [node |-> [n EXCEPT !.keys = RemoveAt(n.keys, s.idx),
                                 !.keys2 = RemoveAt(n.keys2, s.idx),
                                 !.vals = RemoveAt(n.vals, s.idx)],
              deleted |-> TRUE]
  IN At(bn_Search(n, key1, key2))

\* the separator returned is the first key1 of the new node
bn_Split(n) ==
  LET count == GetKeyCount(n)
      mid == count \div 2
  IN [key |-> n.keys[mid + 1],
      node |-> [n EXCEPT !.keys = SubSeq(n.keys, 1, mid),
                         !.keys2 = SubSeq(n.keys2, 1, mid),
                         !.vals = SubSeq(n.vals, 1, mid)],
      newNode |-> [bn_NewLeafNode(ZeroPage) EXCEPT
                     !.keys = SubSeq(n.keys, mid + 1, count),
                     !.keys2 = SubSeq(n.keys2, mid + 1, count),
                     !.vals = SubSeq(n.vals, mid + 1, count),
                     !.next = n.next]]

RECURSIVE bn_RangeLoop(_, _, _, _, _)
bn_RangeLoop(n, i, end1, end2, results) ==
  IF i < GetKeyCount(n)
  THEN IF compareKeys(n.keys[i + 1], n.keys2[i + 1], end1, end2) > 0 THEN results
       ELSE bn_RangeLoop(n, i + 1, end1, end2,
              Append(results, [Key1 |-> n.keys[i + 1], Key2 |-> n.keys2[i + 1],
                               Value |-> n.vals[i + 1]]))
  ELSE results

bn_Range(n, start1, start2, end1, end2) ==
  bn_RangeLoop(n, bn_Search(n, start1, start2).idx, end1, end2, <<>>)

bn_IsUnderflow(n) == GetKeyCount(n) < bn_MinLeafKeys
bn_CanLendTo(n) == GetKeyCount(n) > bn_MinLeafKeys

bn_BorrowFromRight(n, right) ==
  LET After(right2) ==
        [node |-> [n EXCEPT !.keys = Append(n.keys, right.keys[1]),
                            !.keys2 = Append(n.keys2, right.keys2[1]),
                            !.vals = Append(n.vals, right.vals[1])],
         right |-> right2,
         key |-> right2.keys[1]]
  IN After(bn_Delete(right, right.keys[1], right.keys2[1]).node)

bn_BorrowFromLeft(n, left) ==
  LET leftCount == GetKeyCount(left)
  IN [node |-> [n EXCEPT !.keys = <<left.keys[leftCount]>> \o n.keys,
                         !.keys2 = <<left.keys2[leftCount]>> \o n.keys2,
                         !.vals = <<left.vals[leftCount]>> \o n.vals],
      left |-> [left EXCEPT !.keys = SubSeq(left.keys, 1, leftCount - 1),
                            !.keys2 = SubSeq(left.keys2, 1, leftCount - 1),
                            !.vals = SubSeq(left.vals, 1, leftCount - 1)],
      key |-> left.keys[leftCount]]

bn_MergeWith(n, right) ==
  [n EXCEPT !.keys = n.keys \o right.keys,
            !.keys2 = n.keys2 \o right.keys2,
            !.vals = n.vals \o right.vals,
            !.next = right.next]

(***************************************************************************)
(* Tree of the composite multi-root engine.  Navigation through internal   *)
(* nodes uses key1 only.                                                   *)
(***************************************************************************)
RECURSIVE bt_search(_, _, _, _)
bt_search(c, pageID, key1, key2) ==
  LET data == bp_GetPage(c, pageID)
  IN IF IsNil(data) THEN [value |-> 0, found |-> FALSE]
     ELSE IF GetNodeType(data) = NodeTypeLeaf THEN bn_Get(data, key1, key2)
     ELSE bt_search(c, GetChildForKey(data, key1), key1, key2)

bt_Find(c, rootID, key1, key2) ==
  LET rootPageID == bp_GetRootPage(c, rootID)
  IN IF rootPageID = 0 THEN [value |-> 0, found |-> FALSE]
     ELSE bt_search(c, rootPageID, key1, key2)

bt_insertLeaf(c, pageID, key1, key2, value) ==
  LET leaf == bp_GetPage(c, pageID)
      \* the split: a is the allocation, sp the halves of the re-read leaf
      Place(a, sp) ==
        LET newPageID == a.id
            splitKey == sp.key
            leaf1 == IF key1 < splitKey THEN bn_Put(sp.node, key1, key2, value)
                     ELSE sp.node
            newLeaf1 == IF key1 < splitKey THEN sp.newNode
                        ELSE bn_Put(sp.newNode, key1, key2, value)
            newLeaf2 == setNextLeaf(newLeaf1, getNextLeaf(leaf1))
            leaf2 == setNextLeaf(leaf1, newPageID)
        IN [st |-> bp_SetPage(bp_SetPage(a.st, pageID, leaf2), newPageID, newLeaf2),
            key |-> splitKey, id |-> newPageID, err |-> "none"]
      Split(a) == Place(a, bn_Split(bp_GetPage(a.st, pageID)))
  IN IF ~bn_IsFull(leaf)
     THEN [st |-> bp_SetPage(c, pageID, bn_Put(leaf, key1, key2, value)),
           key |-> 0, id |-> 0, err |-> "none"]
     ELSE IF bn_Get(leaf, key1, key2).found
     THEN [st |-> bp_SetPage(c, pageID, bn_Put(leaf, key1, key2, value)),
           key |-> 0, id |-> 0, err |-> "none"]
     ELSE Split(bp_AllocatePage(c))

RECURSIVE bt_insert(_, _, _, _, _)
bt_insertInternal(c, pageID, key1, key2, value) ==
  LET \* the split: r is the result of the child, a the allocation
      Place(r, a, sp) ==
        LET newPageID == a.id
            midKey == sp.key
            internal1 == IF r.key < midKey
                         THEN Internal_Insert(sp.node, r.key, r.id)
                         ELSE sp.node
            newInternal1 == IF r.key < midKey THEN sp.newNode
                            ELSE Internal_Insert(sp.newNode, r.key, r.id)
        IN [st |-> bp_SetPage(bp_SetPage(a.st, pageID, internal1),
                              newPageID, newInternal1),
            key |-> midKey, id |-> newPageID, err |-> "none"]
      Split(r, a) == Place(r, a, Internal_Split(bp_GetPage(a.st, pageID)))
      \* r: what the insert into the child returned
      After(r) ==
        LET internal == bp_GetPage(r.st, pageID)
        IN IF r.err # "none" THEN [st |-> r.st, key |-> 0, id |-> 0, err |-> r.err]
           ELSE IF r.id = 0 THEN [st |-> r.st, key |-> 0, id |-> 0, err |-> "none"]
           ELSE IF ~Internal_IsFull(internal)
           THEN [st |-> bp_SetPage(r.st, pageID, Internal_Insert(internal, r.key, r.id)),
                 key |-> 0, id |-> 0, err |-> "none"]
           ELSE Split(r, bp_AllocatePage(r.st))
  IN After(bt_insert(c, GetChildForKey(bp_GetPage(c, pageID), key1), key1, key2, value))

bt_insert(c, pageID, key1, key2, value) ==
  LET data == bp_GetPage(c, pageID)
  IN IF IsNil(data) THEN [st |-> c, key |-> 0, id |-> 0, err |-> "failed to get page"]
     ELSE IF GetNodeType(data) = NodeTypeLeaf
     THEN bt_insertLeaf(c, pageID, key1, key2, value)
     ELSE bt_insertInternal(c, pageID, key1, key2, value)

bt_Insert(c, rootID, key1, key2, value) ==
  LET rootPageID == bp_GetRootPage(c, rootID)
      \* the first leaf, in the page of allocation a
      FirstLeaf(a) ==
        bp_SetRootPage(
          bp_SetPage(a.st, a.id,
                     bn_Put(bn_NewLeafNode(bp_GetPage(a.st, a.id)), key1, key2, value)),
          rootID, a.id)
      \* a new root over the old root and the page r.id split off it
      NewRoot(r, a) ==
        bp_SetRootPage(
          bp_SetPage(a.st, a.id,
                     InitRoot(NewInternalNode(bp_GetPage(a.st, a.id)),
                              rootPageID, r.id, r.key)),
          rootID, a.id)
      After(r) == IF r.err # "none" THEN [st |-> r.st, err |-> r.err]
                  ELSE IF r.id # 0 THEN NewRoot(r, bp_AllocatePage(r.st))
                  ELSE [st |-> r.st, err |-> "none"]
  IN IF rootPageID = 0 THEN FirstLeaf(bp_AllocatePage(c))
     ELSE After(bt_insert(c, rootPageID, key1, key2, value))

\* handleUnderflow(parent, childIdx, parentData): parent is the window of
\* page parentID, so every parent.X(...) is a write to that page
bt_handleUnderflow(c, parentID, childIdx) ==
  LET parent == bp_GetPage(c, parentID)
      childID == GetChild(parent, childIdx)
      child == bp_GetPage(c, childID)
      isLeaf == GetNodeType(child) = NodeTypeLeaf
      leftSibID == GetChild(parent, childIdx - 1)
      leftSib == bp_GetPage(c, leftSibID)
      rightSibID == GetChild(parent, childIdx + 1)
      rightSib == bp_GetPage(c, rightSibID)
      canLeft == /\ childIdx > 0
                 /\ IF isLeaf THEN bn_CanLendTo(leftSib) ELSE Internal_CanLendTo(leftSib)
      canRight == /\ childIdx < GetKeyCount(parent)
                  /\ IF isLeaf THEN bn_CanLendTo(rightSib)
                               ELSE Internal_CanLendTo(rightSib)
      MergeLeft(merged) ==
        bp_FreePage(bp_SetPage(bp_SetPage(c, leftSibID, merged),
                               parentID, DeleteKeyAt(parent, childIdx - 1)),
                    childID)
      MergeRight(merged) ==
        bp_FreePage(bp_SetPage(bp_SetPage(c, childID, merged),
                               parentID, DeleteKeyAt(parent, childIdx)),
                    rightSibID)
  IN IF canLeft
     THEN LET Store(b) ==
                bp_SetPage(bp_SetPage(bp_SetPage(c, childID, b.node), leftSibID, b.left),
                           parentID, SetKeyAt(parent, childIdx - 1, b.key))
          IN Store(IF isLeaf THEN bn_BorrowFromLeft(child, leftSib)
                   ELSE Internal_BorrowFromLeft(child, leftSib,
                                                GetKeyAt(parent, childIdx - 1)))
     ELSE IF canRight
     THEN LET Store(b) ==
                bp_SetPage(bp_SetPage(bp_SetPage(c, childID, b.node), rightSibID, b.right),
                           parentID, SetKeyAt(parent, childIdx, b.key))
          IN Store(IF isLeaf THEN bn_BorrowFromRight(child, rightSib)
                   ELSE Internal_BorrowFromRight(child, rightSib,
                                                 GetKeyAt(parent, childIdx)))
     ELSE IF childIdx > 0
     THEN MergeLeft(IF isLeaf THEN bn_MergeWith(leftSib, child)
                    ELSE Internal_MergeWith(leftSib, child,
                                            GetKeyAt(parent, childIdx - 1)))
     ELSE MergeRight(IF isLeaf THEN bn_MergeWith(child, rightSib)
                     ELSE Internal_MergeWith(child, rightSib,
                                             GetKeyAt(parent, childIdx)))

RECURSIVE bt_deleteRecursive(_, _, _, _)
bt_deleteRecursive(c, pageID, key1, key2) ==
  LET data == bp_GetPage(c, pageID)
      InLeaf(d) ==
        [st |-> bp_SetPage(c, pageID, d.node), deleted |-> d.deleted,
         underflow |-> d.deleted /\ bn_IsUnderflow(d.node)]
      Fixed(c1) ==
        [st |-> c1, deleted |-> TRUE,
         underflow |-> Internal_IsUnderflow(bp_GetPage(c1, pageID))]
      \* r: what the delete in child childIdx returned
      After(childIdx, r) ==
        IF ~r.deleted THEN [st |-> r.st, deleted |-> FALSE, underflow |-> FALSE]
        ELSE IF ~r.underflow THEN [st |-> r.st, deleted |-> TRUE, underflow |-> FALSE]
        ELSE Fixed(bt_handleUnderflow(r.st, pageID, childIdx))
      Descend(childIdx) ==
        After(childIdx, bt_deleteRecursive(c, GetChild(data, childIdx), key1, key2))
  IN IF IsNil(data) THEN [st |-> c, deleted |-> FALSE, underflow |-> FALSE]
     ELSE IF GetNodeType(data) = NodeTypeLeaf THEN InLeaf(bn_Delete(data, key1, key2))
     ELSE Descend(Internal_Search(data, key1))

\* mutant: Delete that frees an internal root left without keys and keeps
\* it in the root slot
bt_Delete_KeepsRoot(c, rootID, key1, key2) ==
  LET rootPageID == bp_GetRootPage(c, rootID)
      After(r) ==
        LET rootData == bp_GetPage(r.st, rootPageID)
        IN IF ~r.deleted THEN [st |-> r.st, deleted |-> FALSE]
           ELSE IF GetNodeType(rootData) = NodeTypeInternal
           THEN IF GetKeyCount(rootData) = 0
                THEN [st |-> bp_FreePage(r.st, rootPageID), deleted |-> TRUE]
                ELSE [st |-> r.st, deleted |-> TRUE]
           ELSE IF GetKeyCount(rootData) = 0
                THEN [st |-> bp_FreePage(bp_SetRootPage(r.st, rootID, 0).st, rootPageID),
                      deleted |-> TRUE]
                ELSE [st |-> r.st, deleted |-> TRUE]
  IN IF rootPageID = 0 THEN [st |-> c, deleted |-> FALSE]
     ELSE After(bt_deleteRecursive(c, rootPageID, key1, key2))

bt_Delete(c, rootID, key1, key2) ==
  LET rootPageID == bp_GetRootPage(c, rootID)
      After(r) ==
        LET rootData == bp_GetPage(r.st, rootPageID)
        IN IF ~r.deleted THEN [st |-> r.st, deleted |-> FALSE]
           ELSE IF GetNodeType(rootData) = NodeTypeInternal
           THEN IF GetKeyCount(rootData) = 0
                THEN [st |-> bp_FreePage(
                               bp_SetRootPage(r.st, rootID, GetChild(rootData, 0)).st,
                               rootPageID),
                      deleted |-> TRUE]
                ELSE [st |-> r.st, deleted |-> TRUE]
           ELSE IF GetKeyCount(rootData) = 0
                THEN [st |-> bp_FreePage(bp_SetRootPage(r.st, rootID, 0).st, rootPageID),
                      deleted |-> TRUE]
                ELSE [st |-> r.st, deleted |-> TRUE]
  IN IF rootPageID = 0 THEN [st |-> c, deleted |-> FALSE]
     ELSE After(bt_deleteRecursive(c, rootPageID, key1, key2))

(***************************************************************************)
(* Range scan of the composite engine; fn, calls, err and fuel as in the   *)
(* single-key scan.  scanInternal wraps every page of the chain as a leaf  *)
(* without looking at its type: the entries it then reads in an internal   *)
(* node with keys are the bytes of child pointers, reported as err         *)
(* "garbage".                                                              *)
(***************************************************************************)
RECURSIVE bt_findLeaf(_, _, _)
bt_findLeaf(c, pageID, key1) ==
  LET data == bp_GetPage(c, pageID)
  IN IF IsNil(data) THEN 0
     ELSE IF GetNodeType(data) = NodeTypeLeaf THEN pageID
     ELSE bt_findLeaf(c, GetChildForKey(data, key1), key1)

RECURSIVE bt_scanLoop(_, _, _, _, _, _, _, _, _)
bt_scanLoop(c, leafID, start1, start2, end1, end2, stopAt, calls, fuel) ==
  LET Visit(leaf, all) ==
        IF stopAt # 0 /\ Len(all) >= stopAt
        THEN [calls |-> SubSeq(all, 1, stopAt), err |-> "none"]
        ELSE IF /\ GetKeyCount(leaf) > 0
                /\ \/ leaf.keys[GetKeyCount(leaf)] > end1
                   \/ /\ leaf.keys[GetKeyCount(leaf)] = end1
                      /\ leaf.keys2[GetKeyCount(leaf)] >= end2
        THEN [calls |-> all, err |-> "none"]
        ELSE bt_scanLoop(c, getNextLeaf(leaf), start1, start2, end1, end2, stopAt,
                         all, fuel - 1)
      At(leaf) ==
        IF IsNil(leaf) THEN [calls |-> calls, err |-> "failed to get page"]
        ELSE IF GetNodeType(leaf) # NodeTypeLeaf /\ GetKeyCount(leaf) > 0
        THEN [calls |-> calls, err |-> "garbage"]
        ELSE Visit(leaf, calls \o bn_Range(leaf, start1, start2, end1, end2))
  IN IF leafID = 0 THEN [calls |-> calls, err |-> "none"]
     ELSE IF fuel = 0 THEN [calls |-> calls, err |-> "diverges"]
     ELSE At(bp_GetPage(c, leafID))

bt_scanInternal(c, rootID, start1, start2, end1, end2, stopAt) ==
  LET rootPageID == bp_GetRootPage(c, rootID)
  IN IF rootPageID = 0 THEN [calls |-> <<>>, err |-> "none"]
     ELSE bt_scanLoop(c, bt_findLeaf(c, rootPageID, start1), start1, start2, end1, end2,
                      stopAt, <<>>, Len(c.pages) + 1)

bt_FindRange(c, rootID, start1, start2, end1, end2, stopAt) ==
  bt_scanInternal(c, rootID, start1, start2, end1, end2, stopAt)

\* n is the count returned; outcome tells whether Count returns ("none"),
\* never returns ("diverges") or has counted the entries read in an
\* internal node ("garbage")
bt_Count(c, rootID) ==
  LET Counted(scan) ==
        IF scan.err \in {"diverges", "garbage"} THEN [n |-> 0, outcome |-> scan.err]
        ELSE [n |-> Len(scan.calls), outcome |-> "none"]
  IN Counted(bt_scanInternal(c, rootID, 0, 0, MaxUint64, MaxUint64, 0))

bt_Open(file) == bp_Open(file)
\* Flash writes the meta page and syncs the mapping, as Checkpoint does
bt_Flash(c) == bp_Checkpoint(c)
bt_Close(c) == bp_Close(c)
bt_CreateRoot(c) == bp_CreateRoot(c)
bt_DeleteRoot(c, rootID) == bp_DeleteRoot(c, rootID)
bt_RootCount(c) == bp_RootCount(c)

(***************************************************************************)
(* State.  db is the store of the single-key engine, ref the map a         *)
(* reference implementation would hold (its domain: the present keys).  A  *)
(* behaviour first loads keys in ascending or in descending order (dir,    *)
(* loaded), then either does up to budget arbitrary operations (ops), or   *)
(* deletes every key and inserts keys again.                               *)
(*                                                                         *)
(* mt is the pager of the composite multi-root engine, roots the root IDs  *)
(* CreateRoot returned and DeleteRoot did not take back, mref[r] the map a *)
(* reference implementation would hold for root r.  phase tells whether    *)
(* the file is open, flushed and not written since, closed, or reopened    *)
(* and not written since; closedFrom is the pager as Close found it.       *)
(***************************************************************************)
VARIABLES db, ref, dir, loaded, ops, budget, mt, mref, roots, phase, closedFrom,
          mu, pc, job

svars == <<db, ref, dir, loaded>>
mvars == <<mt, mref, roots, phase, closedFrom>>
\* threads: mu is the RWMutex of the tree, pc[t] the position of thread t
\* in its call and job[t] the arguments and locals of that call
tvars == <<mu, pc, job>>
vars == <<db, ref, dir, loaded, ops, budget, mt, mref, roots, phase, closedFrom,
          mu, pc, job>>

\* two threads, each free to call any operation; writer = NoThread: unlocked
Threads == {"t1", "t2"}
NoThread == "none"
NoJob == [key |-> 0, root |-> 0, splitKey |-> 0, newChildID |-> 0, deleted |-> FALSE,
          result |-> [value |-> 0, found |-> FALSE], count |-> 0, size |-> 0]

RefPut(m, k, v) == [j \in DOMAIN m \cup {k} |-> IF j = k THEN v ELSE m[j]]
RefRemove(m, k) == [j \in DOMAIN m \ {k} |-> m[j]]

InitWith(b) ==
  /\ db = Open(FreshFile).st
  /\ ref = <<>>
  /\ dir = "none"
  /\ loaded = 0
  /\ ops = 0
  /\ budget = b
  /\ mt = bt_Open(bp_FreshFile).st
  /\ mref = [r \in RootIDs |-> <<>>]
  /\ roots = {}
  /\ phase = "open"
  /\ closedFrom = bt_Open(bp_FreshFile).st
  /\ mu = [readers |-> {}, writer |-> NoThread]
  /\ pc = [t \in Threads |-> "idle"]
  /\ job = [t \in Threads |-> NoJob]

Init == InitWith(MaxOps)
InitScan == InitWith(MaxScanOps)
InitDrain == InitWith(MaxRefill)

Load(d, k) ==
  /\ ops = 0
  /\ dir \in {"none", d}
  /\ loaded <= MaxKey
  /\ db' = Insert(db, k, (k % 2) * MaxVal)
  /\ ref' = RefPut(ref, k, (k % 2) * MaxVal)
  /\ dir' = d
  /\ loaded' = loaded + 1
  /\ UNCHANGED <<ops, budget>>
  /\ UNCHANGED <<mvars, tvars>>

LoadAscending == Load("asc", loaded)
LoadDescending == Load("desc", MaxKey - loaded)

DoInsert(k, v) ==
  /\ dir # "drain"
  /\ ops < budget
  /\ db' = Insert(db, k, v)
  /\ ref' = RefPut(ref, k, v)
  /\ ops' = ops + 1
  /\ UNCHANGED <<dir, loaded, budget>>
  /\ UNCHANGED <<mvars, tvars>>

DoDelete(k) ==
  /\ dir # "drain"
  /\ ops < budget
  /\ db' = Delete(db, k).st
  /\ ref' = RefRemove(ref, k)
  /\ ops' = ops + 1
  /\ UNCHANGED <<dir, loaded, budget>>
  /\ UNCHANGED <<mvars, tvars>>

\* teardown: delete a present key until the tree is empty: in any order when
\* at most MaxDrainAny keys were loaded, else from either end of the key range
Drain(k) ==
  /\ ops = 0
  /\ loaded > 0
  /\ k \in DOMAIN ref
  /\ \/ loaded <= MaxDrainAny
     \/ \A j \in DOMAIN ref : k <= j
     \/ \A j \in DOMAIN ref : j <= k
  /\ db' = Delete(db, k).st
  /\ ref' = RefRemove(ref, k)
  /\ dir' = "drain"
  /\ UNCHANGED <<loaded, ops, budget>>
  /\ UNCHANGED <<mvars, tvars>>

\* after a complete teardown, insert the keys 0, 1, ... again
Refill ==
  /\ dir = "drain"
  /\ DOMAIN ref = {} \/ ops > 0
  /\ ops < budget
  /\ db' = Insert(db, ops, (ops % 2) * MaxVal)
  /\ ref' = RefPut(ref, ops, (ops % 2) * MaxVal)
  /\ ops' = ops + 1
  /\ UNCHANGED <<dir, loaded, budget>>
  /\ UNCHANGED <<mvars, tvars>>

Next ==
  \/ LoadAscending
  \/ LoadDescending
  \/ \E k \in Keys, v \in Values : DoInsert(k, v)
  \/ \E k \in Keys : DoDelete(k)

(***************************************************************************)
(* Page windows of one Insert.  A window is the slice GetPage returns: it  *)
(* belongs to the mapping of the moment, which Grow replaces exactly when  *)
(* the size changes.  The operators below follow Insert, insert,           *)
(* insertLeaf and insertInternal statement by statement and are TRUE when  *)
(* every node access goes through a window of the current mapping.         *)
(***************************************************************************)
Window(st, id) == [id |-> id, size |-> st.size]
WindowValid(w, st) == w.size = st.size

\* mutant: the window obtained before the call is kept
Refetch_Keep(st, data) == data

\* data = t.pager.GetPage(pageID) after a call that may have remapped
Refetch(st, data) == Window(st, data.id)

insertLeaf_Windows(st, pageID, key, value) ==
  LET data == Window(st, pageID)
      leaf == GetPage(st, pageID)
      Split(a) ==
        /\ WindowValid(Refetch(a.st, data), a.st)
        /\ WindowValid(Window(a.st, a.id), a.st)
  IN /\ WindowValid(data, st)
     /\ IF ~Leaf_IsFull(leaf) \/ Leaf_Get(leaf, key).found THEN TRUE
        ELSE Split(AllocatePage(st))

RECURSIVE insert_Windows(_, _, _, _)
insertInternal_Windows(st, pageID, key, value) ==
  LET data == Window(st, pageID)
      childID == GetChildForKey(GetPage(st, pageID), key)
      Split(a, data2) ==
        /\ WindowValid(Refetch(a.st, data2), a.st)
        /\ WindowValid(Window(a.st, a.id), a.st)
      Reread(r, data2) ==
        /\ WindowValid(data2, r.st)
        /\ IF ~Internal_IsFull(GetPage(r.st, pageID)) THEN TRUE
           ELSE Split(AllocatePage(r.st), data2)
      After(r) == IF r.id = 0 THEN TRUE ELSE Reread(r, Refetch(r.st, data))
  IN /\ WindowValid(data, st)
     /\ insert_Windows(st, childID, key, value)
     /\ After(insert(st, childID, key, value))

insert_Windows(st, pageID, key, value) ==
  LET data == GetPage(st, pageID)
  IN IF IsNil(data) THEN TRUE
     ELSE IF GetNodeType(data) = NodeTypeLeaf
     THEN insertLeaf_Windows(st, pageID, key, value)
     ELSE insertInternal_Windows(st, pageID, key, value)

Insert_Windows(st, key, value) ==
  LET rootID == RootPage(st)
      Fresh(a) == WindowValid(Window(a.st, a.id), a.st)
      After(r) == IF r.id # 0 THEN Fresh(AllocatePage(r.st)) ELSE TRUE
  IN IF rootID = 0 THEN Fresh(AllocatePage(st))
     ELSE /\ insert_Windows(st, rootID, key, value)
          /\ After(insert(st, rootID, key, value))

\* growth of a tree with three levels: the first key is any key of
\* GrowKeys, every later insert takes the key below the smallest or above
\* the largest present key, and up to budget deletes take any present key
GrowKeys == 0..MaxGrowKey
InitGrow == InitWith(MaxGrowDeletes)

Grow(k) ==
  /\ k \in GrowKeys
  /\ db' = Insert(db, k, (k % 2) * MaxVal)
  /\ ref' = RefPut(ref, k, (k % 2) * MaxVal)
  /\ loaded' = loaded + 1
  /\ UNCHANGED <<dir, ops, budget>>
  /\ UNCHANGED <<mvars, tvars>>

GrowFirst(k) == DOMAIN ref = {} /\ Grow(k)

GrowDown ==
  /\ DOMAIN ref # {}
  /\ \E k \in DOMAIN ref : (\A j \in DOMAIN ref : k <= j) /\ Grow(k - 1)

GrowUp ==
  /\ DOMAIN ref # {}
  /\ \E k \in DOMAIN ref : (\A j \in DOMAIN ref : j <= k) /\ Grow(k + 1)

GrowDelete(k) ==
  /\ k \in DOMAIN ref
  /\ ops < budget
  /\ db' = Delete(db, k).st
  /\ ref' = RefRemove(ref, k)
  /\ ops' = ops + 1
  /\ UNCHANGED <<dir, loaded, budget>>
  /\ UNCHANGED <<mvars, tvars>>

NextGrow ==
  \/ \E k \in GrowKeys : GrowFirst(k)
  \/ GrowDown
  \/ GrowUp
  \/ \E k \in GrowKeys : GrowDelete(k)

(***************************************************************************)
(* Threads on the single-key engine.  Every public operation takes t.mu,   *)
(* shared for Find and Count, exclusive for Insert, Delete and Checkpoint, *)
(* and releases it when it returns.  A call is cut where another thread    *)
(* could see a difference: a reader between reading the root ID and the    *)
(* descent, Insert between the recursive insert and the new root, Delete   *)
(* between the recursive delete and the replacement of the root.           *)
(***************************************************************************)
ThreadKeys == 0..MaxThreadKey
InitThreads == InitWith(MaxThreadOps)

\* mutant: RLock that does not wait for the writer
RLockFree_NoWait(m) == TRUE

\* sync.RWMutex: RLock and Lock return when these hold
RLockFree(m) == m.writer = NoThread
\* mutant: Lock that does not wait for the readers
LockFree_IgnoresReaders(m) == m.writer = NoThread
LockFree(m) == m.writer = NoThread /\ m.readers = {}
RLock(m, t) == [m EXCEPT !.readers = @ \cup {t}]
RUnlock(m, t) == [m EXCEPT !.readers = @ \ {t}]
Lock(m, t) == [m EXCEPT !.writer = t]
Unlock(m) == [m EXCEPT !.writer = NoThread]

\* the end of Insert: a new root when the old root rootID was split
InsertNewRoot(st, rootID, splitKey, newChildID) ==
  LET NewRoot(a) ==
        SetRootPage(SetPage(a.st, a.id,
                            InitRoot(NewInternalNode(GetPage(a.st, a.id)),
                                     rootID, newChildID, splitKey)),
                    a.id)
  IN IF newChildID # 0 THEN NewRoot(AllocatePage(st)) ELSE st

\* the end of Delete: the root rootID is replaced when it is left empty
DeleteShrinkRoot(st, rootID, deleted) ==
  LET rootData == GetPage(st, rootID)
  IN IF ~deleted THEN st
     ELSE IF GetNodeType(rootData) = NodeTypeInternal
     THEN IF GetKeyCount(rootData) = 0
          THEN FreePage(SetRootPage(st, GetChild(rootData, 0)), rootID)
          ELSE st
     ELSE IF GetKeyCount(rootData) = 0
          THEN FreePage(SetRootPage(st, 0), rootID)
          ELSE st

Step(t, from, to, j) ==
  /\ pc[t] = from
  /\ pc' = [pc EXCEPT ![t] = to]
  /\ job' = [job EXCEPT ![t] = j]

ReadStep(t, from, to, j) ==
  /\ Step(t, from, to, j)
  /\ UNCHANGED <<svars, ops, budget, mvars>>

\* Find(key): RLock, read the root ID, descend, RUnlock
FindLock(t, k) ==
  /\ RLockFree(mu)
  /\ mu' = RLock(mu, t)
  /\ ReadStep(t, "idle", "findRoot", [NoJob EXCEPT !.key = k])

FindRoot(t) ==
  /\ ReadStep(t, "findRoot", "findSearch", [job[t] EXCEPT !.root = RootPage(db)])
  /\ UNCHANGED mu

FindSearch(t) ==
  /\ ReadStep(t, "findSearch", "findDone",
              [job[t] EXCEPT !.result =
                 IF job[t].root = 0 THEN [value |-> 0, found |-> FALSE]
                 ELSE search(db, job[t].root, job[t].key)])
  /\ UNCHANGED mu

\* Count(): RLock, scan, RUnlock
CountLock(t) ==
  /\ RLockFree(mu)
  /\ mu' = RLock(mu, t)
  /\ ReadStep(t, "idle", "countScan", NoJob)

CountScan(t) ==
  /\ ReadStep(t, "countScan", "countDone", [job[t] EXCEPT !.count = Count(db)])
  /\ UNCHANGED mu

ReadUnlock(t) ==
  /\ pc[t] \in {"findDone", "countDone"}
  /\ mu' = RUnlock(mu, t)
  /\ pc' = [pc EXCEPT ![t] = "idle"]
  /\ job' = [job EXCEPT ![t] = NoJob]
  /\ UNCHANGED <<svars, ops, budget, mvars>>

WriteLock(t, to, j) ==
  /\ ops < budget
  /\ LockFree(mu)
  /\ mu' = Lock(mu, t)
  /\ Step(t, "idle", to, j)
  /\ ops' = ops + 1
  /\ UNCHANGED <<svars, budget, mvars>>

WriteUnlock(t, from) ==
  /\ mu' = Unlock(mu)
  /\ Step(t, from, "idle", NoJob)
  /\ UNCHANGED <<dir, loaded, ops, budget, mvars>>

\* Insert(key, value): Lock, the first leaf or the recursive insert, the
\* new root, Unlock
InsertLock(t, k) == WriteLock(t, "insertTree", [NoJob EXCEPT !.key = k])

InsertTree(t) ==
  LET rootID == RootPage(db)
      k == job[t].key
      Inserted(r) ==
        /\ db' = r.st
        /\ Step(t, "insertTree", "insertRoot",
                [job[t] EXCEPT !.root = rootID, !.splitKey = r.key, !.newChildID = r.id])
  IN /\ IF rootID = 0
        THEN /\ db' = Insert(db, k, (k % 2) * MaxVal)
             /\ Step(t, "insertTree", "insertRoot", job[t])
        ELSE Inserted(insert(db, rootID, k, (k % 2) * MaxVal))
     /\ UNCHANGED <<ref, dir, loaded, ops, budget, mvars, mu>>

InsertRoot(t) ==
  /\ db' = InsertNewRoot(db, job[t].root, job[t].splitKey, job[t].newChildID)
  /\ ref' = RefPut(ref, job[t].key, (job[t].key % 2) * MaxVal)
  /\ WriteUnlock(t, "insertRoot")

\* Delete(key): Lock, the recursive delete, the replacement of an empty
\* root, Unlock
DeleteLock(t, k) == WriteLock(t, "deleteTree", [NoJob EXCEPT !.key = k])

DeleteTree(t) ==
  LET rootID == RootPage(db)
      Deleted(r) ==
        /\ db' = r.st
        /\ Step(t, "deleteTree", "deleteRoot",
                [job[t] EXCEPT !.root = rootID, !.deleted = r.deleted])
  IN /\ IF rootID = 0
        THEN /\ db' = db
             /\ Step(t, "deleteTree", "deleteRoot", job[t])
        ELSE Deleted(deleteRecursive(db, rootID, job[t].key))
     /\ UNCHANGED <<ref, dir, loaded, ops, budget, mvars, mu>>

DeleteRoot(t) ==
  /\ db' = IF job[t].root = 0 THEN db
           ELSE DeleteShrinkRoot(db, job[t].root, job[t].deleted)
  /\ ref' = RefRemove(ref, job[t].key)
  /\ WriteUnlock(t, "deleteRoot")

\* Checkpoint(): Lock, write the meta page and sync, Unlock
CheckpointLock(t) == WriteLock(t, "checkpoint", NoJob)

CheckpointSync(t) ==
  /\ db' = Checkpoint(db)
  /\ UNCHANGED ref
  /\ WriteUnlock(t, "checkpoint")

NextThreads ==
  \E t \in Threads :
    \/ \E k \in ThreadKeys : FindLock(t, k)
    \/ FindRoot(t)
    \/ FindSearch(t)
    \/ CountLock(t)
    \/ CountScan(t)
    \/ ReadUnlock(t)
    \/ \E k \in ThreadKeys : InsertLock(t, k)
    \/ InsertTree(t)
    \/ InsertRoot(t)
    \/ \E k \in ThreadKeys : DeleteLock(t, k)
    \/ DeleteTree(t)
    \/ DeleteRoot(t)
    \/ CheckpointLock(t)
    \/ CheckpointSync(t)

NextDrain ==
  \/ LoadAscending
  \/ LoadDescending
  \/ \E k \in Keys : Drain(k)
  \/ Refill

(***************************************************************************)
(* Operations of the composite engine.  A new pair is inserted with the    *)
(* value PairVal; an operation on a closed file is not modelled.           *)
(***************************************************************************)
\* the composite keys, in lexicographic order: with one key1 go the key2
\* 1..Key2Width, one more than a leaf holds
Key2Width == bn_MaxLeafKeys + 1
SortedPairs ==
  [n \in 1..MaxPairs |-> <<(n - 1) \div Key2Width, ((n - 1) % Key2Width) + 1>>]
Pairs == {SortedPairs[n] : n \in 1..MaxPairs}
PairVal(key1, key2) == ((key1 + key2) % 2) * MaxVal

InitMulti == InitWith(MaxMultiOps)
InitPersist == InitWith(MaxPersistOps)
InitIsolation == InitWith(MaxIsolationOps)
InitRoots == InitWith(MaxRootOps)
InitChurn == InitWith(MaxChurnOps)

Written(c) ==
  /\ mt' = c
  /\ phase' = "open"
  /\ closedFrom' = bt_Open(bp_FreshFile).st
  /\ UNCHANGED <<svars, budget, tvars>>

DoCreateRoot ==
  /\ phase \notin {"closed", "closedUnflushed"}
  /\ bt_CreateRoot(mt).err = "none"
  /\ roots' = roots \cup {bt_CreateRoot(mt).id}
  /\ Written(bt_CreateRoot(mt).st)
  /\ UNCHANGED <<mref, ops>>

DoDeleteRoot(r) ==
  /\ phase \notin {"closed", "closedUnflushed"}
  /\ r \in roots
  /\ ops < budget
  /\ roots' = roots \ {r}
  /\ mref' = [mref EXCEPT ![r] = <<>>]
  /\ ops' = ops + 1
  /\ Written(bt_DeleteRoot(mt, r).st)

DoInsertPair(r, key1, key2) ==
  /\ phase \notin {"closed", "closedUnflushed"}
  /\ r \in roots
  /\ <<key1, key2>> \notin DOMAIN mref[r]
  /\ ops < budget
  /\ mref' = [mref EXCEPT ![r] = RefPut(@, <<key1, key2>>, PairVal(key1, key2))]
  /\ ops' = ops + 1
  /\ Written(bt_Insert(mt, r, key1, key2, PairVal(key1, key2)).st)
  /\ UNCHANGED roots

DoDeletePair(r, key1, key2) ==
  /\ phase \notin {"closed", "closedUnflushed"}
  /\ r \in roots
  /\ <<key1, key2>> \in DOMAIN mref[r]
  /\ ops < budget
  /\ mref' = [mref EXCEPT ![r] = RefRemove(@, <<key1, key2>>)]
  /\ ops' = ops + 1
  /\ Written(bt_Delete(mt, r, key1, key2).st)
  /\ UNCHANGED roots

\* Insert with a valid root ID that CreateRoot has not returned
DoInsertUncreated(r, key1, key2) ==
  /\ phase \notin {"closed", "closedUnflushed"}
  /\ r \in RootIDs \ roots
  /\ <<key1, key2>> \notin DOMAIN mref[r]
  /\ ops < budget
  /\ mref' = [mref EXCEPT ![r] = RefPut(@, <<key1, key2>>, PairVal(key1, key2))]
  /\ ops' = ops + 1
  /\ Written(bt_Insert(mt, r, key1, key2, PairVal(key1, key2)).st)
  /\ UNCHANGED roots

\* DeleteRoot with a valid root ID that is not the ID of an active root
DoDeleteUnusedRoot(r) ==
  /\ phase \notin {"closed", "closedUnflushed"}
  /\ r \in RootIDs \ roots
  /\ ops < budget
  /\ mref' = [mref EXCEPT ![r] = <<>>]
  /\ ops' = ops + 1
  /\ Written(bt_DeleteRoot(mt, r).st)
  /\ UNCHANGED roots

DoFlash ==
  /\ phase \in {"open", "reopened"}
  /\ mt' = bt_Flash(mt)
  /\ phase' = "flushed"
  /\ UNCHANGED <<svars, ops, budget, mref, roots, closedFrom, tvars>>

DoClose ==
  /\ phase \notin {"closed", "closedUnflushed"}
  /\ closedFrom' = mt
  /\ mt' = bt_Close(mt)
  /\ phase' = IF phase = "flushed" THEN "closed" ELSE "closedUnflushed"
  /\ UNCHANGED <<svars, ops, budget, mref, roots, tvars>>

DoOpen ==
  /\ phase \in {"closed", "closedUnflushed"}
  /\ bt_Open(FileOf(mt)).err = "none"
  /\ mt' = bt_Open(FileOf(mt)).st
  /\ phase' = IF phase = "closed" THEN "reopened" ELSE "open"
  /\ UNCHANGED <<svars, ops, budget, mref, roots, closedFrom, tvars>>

\* inserts of pairwise distinct pairs
NextMulti ==
  \/ DoCreateRoot
  \/ \E r \in RootIDs, p \in Pairs : DoInsertPair(r, p[1], p[2])

NextPersist ==
  \/ DoCreateRoot
  \/ \E r \in RootIDs : DoDeleteRoot(r)
  \/ \E r \in RootIDs, p \in Pairs : DoInsertPair(r, p[1], p[2])
  \/ \E r \in RootIDs, p \in Pairs : DoDeletePair(r, p[1], p[2])
  \/ DoFlash
  \/ DoClose
  \/ DoOpen

\* every operation on the root directory and on the trees, with every
\* valid root ID
RootPairs == {SortedPairs[i] : i \in 1..MaxRootPairs}

NextRoots ==
  \/ DoCreateRoot
  \/ \E r \in RootIDs : DoDeleteRoot(r)
  \/ \E r \in RootIDs : DoDeleteUnusedRoot(r)
  \/ \E r \in RootIDs, p \in RootPairs : DoInsertPair(r, p[1], p[2])
  \/ \E r \in RootIDs, p \in RootPairs : DoInsertUncreated(r, p[1], p[2])
  \/ \E r \in RootIDs, p \in RootPairs : DoDeletePair(r, p[1], p[2])

ChurnPairs == {SortedPairs[i] : i \in 1..MaxChurnPairs}

\* inserts and deletes on every created root, no DeleteRoot
NextChurn ==
  \/ DoCreateRoot
  \/ \E r \in RootIDs, p \in ChurnPairs : DoInsertPair(r, p[1], p[2])
  \/ \E r \in RootIDs, p \in ChurnPairs : DoDeletePair(r, p[1], p[2])

\* the history of the root created last, beside roots that stay empty
NextIsolation ==
  \/ DoCreateRoot
  \/ \E p \in Pairs : DoInsertPair(MaxRoots - 1, p[1], p[2])
  \/ \E p \in Pairs : DoDeletePair(MaxRoots - 1, p[1], p[2])

(***************************************************************************)
(* Threads on the composite engine.  Its wrapper has no mutex: the field   *)
(* and every Lock, RLock and Unlock call are commented out, so a call      *)
(* starts at any time.  Find is cut between the read of the root page ID   *)
(* and the descent, Insert between the recursive insert and the new root,  *)
(* Delete before the root shrink; job.size is the size of the mapping when *)
(* the operation fetched its first window.  All threads work on the root   *)
(* the first CreateRoot returns,                                           *)
(* and the callers keep their writes apart: a write starts when no other   *)
(* write is under way, a Find at any time.                                 *)
(***************************************************************************)
ThreadPairs == {SortedPairs[i] : i \in 1..MaxThreadPairs}
ThreadRoot == bt_CreateRoot(bt_Open(bp_FreshFile).st).id

InitThreadsMulti == InitWith(MaxMultiThreadOps)

\* the new root written by Insert after a split of the old root
bt_InsertNewRoot(c, rootID, rootPageID, splitKey, newChildID) ==
  LET NewRoot(a) ==
        bp_SetRootPage(
          bp_SetPage(a.st, a.id,
                     InitRoot(NewInternalNode(bp_GetPage(a.st, a.id)),
                              rootPageID, newChildID, splitKey)),
          rootID, a.id).st
  IN IF newChildID = 0 THEN c ELSE NewRoot(bp_AllocatePage(c))

\* the replacement of an empty root by Delete
bt_DeleteShrinkRoot(c, rootID, rootPageID, deleted) ==
  LET rootData == bp_GetPage(c, rootPageID)
  IN IF ~deleted \/ IsNil(rootData) THEN c
     ELSE IF GetKeyCount(rootData) # 0 THEN c
     ELSE IF GetNodeType(rootData) = NodeTypeInternal
     THEN bp_FreePage(bp_SetRootPage(c, rootID, GetChild(rootData, 0)).st, rootPageID)
     ELSE bp_FreePage(bp_SetRootPage(c, rootID, 0).st, rootPageID)

RECURSIVE IsOnFreeList(_, _, _, _)
IsOnFreeList(c, id, head, fuel) ==
  IF head = 0 \/ fuel = 0 THEN FALSE
  ELSE IF head = id THEN TRUE
  ELSE IsOnFreeList(c, id, bp_Slice(c, head).freeNext, fuel - 1)

IsFreePage(c, id) == IsOnFreeList(c, id, c.meta.FreeList, Len(c.pages) + 1)

MultiStep(t, from, to, j) ==
  /\ Step(t, from, to, j)
  /\ UNCHANGED <<svars, budget, roots, phase, closedFrom, mu>>

\* Find(rootID, key1, key2): the root page ID, then the descent
bt_FindRoot(t, p) ==
  /\ ThreadRoot \in roots
  /\ MultiStep(t, "idle", "btFindSearch",
               [NoJob EXCEPT !.key = p, !.root = bp_GetRootPage(mt, ThreadRoot),
                             !.size = mt.size])
  /\ UNCHANGED <<mt, mref, ops>>

\* the descent from a root page that a Delete has freed meanwhile reads the
\* zeroed page and whatever it leads to: any result
bt_FindSearch(t) ==
  /\ pc[t] = "btFindSearch"
  /\ \E res \in IF job[t].root = 0 THEN {[value |-> 0, found |-> FALSE]}
                 ELSE IF IsFreePage(mt, job[t].root)
                 THEN [value : 0..MaxVal, found : BOOLEAN]
                 ELSE {bt_search(mt, job[t].root, job[t].key[1], job[t].key[2])} :
       MultiStep(t, "btFindSearch", "btFindDone", [job[t] EXCEPT !.result = res])
  /\ UNCHANGED <<mt, mref, ops>>

bt_FindReturn(t) ==
  /\ MultiStep(t, "btFindDone", "idle", NoJob)
  /\ UNCHANGED <<mt, mref, ops>>

\* Insert(rootID, key1, key2, value): the first leaf or the recursive
\* insert, then the new root
bt_InsertTree(t, p) ==
  LET rootPageID == bp_GetRootPage(mt, ThreadRoot)
      v == PairVal(p[1], p[2])
      Inserted(r) ==
        /\ mt' = r.st
        /\ MultiStep(t, "idle", "btInsertRoot",
                     [NoJob EXCEPT !.key = p, !.root = rootPageID, !.splitKey = r.key,
                                   !.newChildID = r.id, !.size = mt.size])
  IN /\ ThreadRoot \in roots
     /\ \A u \in Threads : pc[u] \notin {"btInsertRoot", "btDeleteRoot"}
     /\ ops < budget
     /\ ops' = ops + 1
     /\ IF rootPageID = 0
        THEN /\ mt' = bt_Insert(mt, ThreadRoot, p[1], p[2], v).st
             /\ MultiStep(t, "idle", "btInsertRoot",
                          [NoJob EXCEPT !.key = p, !.size = mt.size])
        ELSE Inserted(bt_insert(mt, rootPageID, p[1], p[2], v))
     /\ UNCHANGED mref

bt_InsertRoot(t) ==
  /\ pc[t] = "btInsertRoot"
  /\ mt' = bt_InsertNewRoot(mt, ThreadRoot, job[t].root, job[t].splitKey,
                            job[t].newChildID)
  /\ mref' = [mref EXCEPT ![ThreadRoot] =
                RefPut(@, job[t].key, PairVal(job[t].key[1], job[t].key[2]))]
  /\ MultiStep(t, "btInsertRoot", "idle", NoJob)
  /\ UNCHANGED ops

\* Delete(rootID, key1, key2): the recursive delete, then the replacement
\* of an empty root
bt_DeleteTree(t, p) ==
  LET rootPageID == bp_GetRootPage(mt, ThreadRoot)
      Deleted(r) ==
        /\ mt' = r.st
        /\ MultiStep(t, "idle", "btDeleteRoot",
                     [NoJob EXCEPT !.key = p, !.root = rootPageID,
                                   !.deleted = r.deleted, !.size = mt.size])
  IN /\ ThreadRoot \in roots
     /\ \A u \in Threads : pc[u] \notin {"btInsertRoot", "btDeleteRoot"}
     /\ ops < budget
     /\ ops' = ops + 1
     /\ IF rootPageID = 0
        THEN /\ mt' = mt
             /\ MultiStep(t, "idle", "btDeleteRoot",
                          [NoJob EXCEPT !.key = p, !.size = mt.size])
        ELSE Deleted(bt_deleteRecursive(mt, rootPageID, p[1], p[2]))
     /\ UNCHANGED mref

bt_DeleteRootStep(t) ==
  /\ pc[t] = "btDeleteRoot"
  /\ mt' = IF job[t].root = 0 THEN mt
           ELSE bt_DeleteShrinkRoot(mt, ThreadRoot, job[t].root, job[t].deleted)
  /\ mref' = [mref EXCEPT ![ThreadRoot] = RefRemove(@, job[t].key)]
  /\ MultiStep(t, "btDeleteRoot", "idle", NoJob)
  /\ UNCHANGED ops

NextThreadsMulti ==
  \/ DoCreateRoot
  \/ \E t \in Threads :
       \/ \E p \in ThreadPairs : bt_FindRoot(t, p)
       \/ bt_FindSearch(t)
       \/ bt_FindReturn(t)
       \/ \E p \in ThreadPairs : bt_InsertTree(t, p)
       \/ bt_InsertRoot(t)
       \/ \E p \in ThreadPairs : bt_DeleteTree(t, p)
       \/ bt_DeleteRootStep(t)

\* arbitrary operations on a loaded tree
Spec == Init /\ [][Next]_vars
\* the same with the smaller budget used for the scans
SpecScan == InitScan /\ [][Next]_vars
\* load, delete everything, insert again
SpecDrain == InitDrain /\ [][NextDrain]_vars

SpecGrow == InitGrow /\ [][NextGrow]_vars

SpecThreads == InitThreads /\ [][NextThreads]_vars
\* composite engine: two threads on one root, no guard
SpecThreadsMulti == InitThreadsMulti /\ [][NextThreadsMulti]_vars
\* composite engine: inserts of distinct pairs into several roots
SpecMulti == InitMulti /\ [][NextMulti]_vars
\* composite engine: operations, and flush, close and open of the file
SpecPersist == InitPersist /\ [][NextPersist]_vars
\* composite engine: one root with a history beside empty roots
SpecIsolation == InitIsolation /\ [][NextIsolation]_vars
\* composite engine: the root directory under every operation
SpecRoots == InitRoots /\ [][NextRoots]_vars

SpecChurn == InitChurn /\ [][NextChurn]_vars

(***************************************************************************)
(* Observations shared by the properties.                                  *)
(***************************************************************************)
Present(k) == k \in DOMAIN ref
NotFound == [value |-> 0, found |-> FALSE]
RefFind(k) == IF Present(k) THEN [value |-> ref[k], found |-> TRUE] ELSE NotFound

\* the entries of the reference map with lo <= key <= hi, ascending
RECURSIVE RefRangeFrom(_, _)
RefRangeFrom(k, hi) ==
  IF k > MaxKey \/ k > hi THEN <<>>
  ELSE (IF Present(k) THEN <<[Key |-> k, Value |-> ref[k]]>> ELSE <<>>)
       \o RefRangeFrom(k + 1, hi)

RefRange(lo, hi) == RefRangeFrom(lo, hi)

\* bounds of a scan: every key, one past the last key, and the top of uint64
ScanBounds == 0..(MaxKey + 1) \cup {MaxUint64}
\* the pairs (lo, hi) scanned: every range, the empty ranges lo = hi + 1 and
\* two inverted ones
ScanPairs ==
  {p \in ScanBounds \X ScanBounds : p[1] - 1 <= p[2] /\ p[1] <= MaxKey + 1}
  \cup {<<MaxUint64, 0>>, <<MaxKey, 0>>}

RootIsInternal == RootPage(db) # 0 /\ GetNodeType(GetPage(db, RootPage(db))) = NodeTypeInternal

\* C1: Find agrees with the reference map after any sequence of Insert and
\* Delete: a present key returns (its last inserted value, true), also when
\* that value is 0; every other key returns (0, false).
C1_FindIsReferenceMap == \A k \in Keys : Find(db, k) = RefFind(k)

\* a tree with an internal root holding a key with value 0, an absent key,
\* after arbitrary operations
C1_Witness ==
  /\ ops > 0
  /\ RootIsInternal
  /\ \E k \in DOMAIN ref : ref[k] = 0 /\ Find(db, k) = [value |-> 0, found |-> TRUE]
  /\ \E k \in Keys : ~Present(k)

\* C4: FindRange(lo, hi, fn) with fn always true calls fn exactly for the
\* present keys in [lo, hi], ascending, with their current values, and
\* returns nil; on an empty tree it makes no call.
C4_FindRangeExact ==
  \A p \in ScanPairs :
    FindRange(db, p[1], p[2], 0) = [calls |-> RefRange(p[1], p[2]), err |-> "none"]

\* a scan that starts inside one leaf and ends in a later one
C4_Witness ==
  /\ RootIsInternal
  /\ \E lo \in Keys, hi \in Keys :
       /\ Len(FindRange(db, lo, hi, 0).calls) >= 3
       /\ findLeaf(db, RootPage(db), lo) # findLeaf(db, RootPage(db), hi)
       /\ ~Present(lo)

\* C6: when fn returns false on its n-th invocation and at least n keys are
\* in range, fn is invoked exactly n times, on the first n keys in range,
\* and FindRange returns nil.
C6_EarlyStop ==
  \A p \in ScanPairs :
    \A n \in 1..Len(RefRange(p[1], p[2])) :
      FindRange(db, p[1], p[2], n) =
        [calls |-> SubSeq(RefRange(p[1], p[2]), 1, n), err |-> "none"]

\* a scan stopped in its second leaf with keys in range left unvisited
C6_Witness ==
  /\ RootIsInternal
  /\ \E lo \in Keys, n \in 2..MaxKey :
       LET r == FindRange(db, lo, MaxUint64, n)
       IN /\ Len(r.calls) = n
          /\ Len(RefRange(lo, MaxUint64)) > n
          /\ findLeaf(db, RootPage(db), lo) # findLeaf(db, RootPage(db), r.calls[n].Key)

\* C8: Delete(k) returns true exactly when k was present; afterwards k is not
\* found and every other key keeps its value; Delete of an absent key (also
\* a second Delete of the same key) returns false and leaves the whole store
\* unchanged: entries, root page, page count and free list.
C8_DeleteFrame ==
  \A k \in Keys :
    LET r == Delete(db, k)
        r2 == Delete(r.st, k)
    IN /\ r.deleted = Present(k)
       /\ Find(r.st, k) = NotFound
       /\ \A j \in Keys \ {k} : Find(r.st, j) = RefFind(j)
       /\ ~r.deleted => r.st = db
       /\ ~r2.deleted /\ r2.st = r.st

\* Delete of an absent key on a tree with an internal root, and Delete of a
\* present key whose leaf is merged
C8_Witness ==
  /\ RootIsInternal
  /\ \E k \in Keys : ~Present(k) /\ ~Delete(db, k).deleted
  /\ \E k \in Keys : /\ Present(k)
                     /\ Delete(db, k).deleted
                     /\ Delete(db, k).st.meta.FreeList # db.meta.FreeList

\* the free list, from its head
RECURSIVE FreeListFrom(_, _, _)
FreeListFrom(st, id, fuel) ==
  IF id = 0 \/ fuel = 0 THEN <<>>
  ELSE <<id>> \o FreeListFrom(st, Slice(st, id).freeNext, fuel - 1)

FreeListSeq(st) == FreeListFrom(st, st.meta.FreeList, Len(st.pages) + 1)
FreeLen(st) == Len(FreeListSeq(st))
FreeSet(st) == {FreeListSeq(st)[i] : i \in 1..FreeLen(st)}

Drained == dir = "drain" /\ \A k \in Keys : ~Present(k)

\* C7: when every inserted key is deleted, in any order, each Delete returns
\* true, and at the end Count is 0, no key is found, the root page is 0 and
\* every page 1..page_count-1 is on the free list; an Insert afterwards
\* succeeds and page_count grows only once the free list is used up.
C7_DeleteAll ==
  /\ \A k \in Keys : Present(k) => Delete(db, k).deleted
  /\ Drained =>
       /\ Count(db) = 0
       /\ \A k \in Keys : Find(db, k) = NotFound
       /\ RootPage(db) = 0
       /\ FreeSet(db) = 1..(PageCount(db) - 1)
       /\ FreeLen(db) = PageCount(db) - 1
  /\ (Drained \/ (dir = "drain" /\ ops > 0)) =>
       \A k \in Keys, v \in Values :
         LET s == Insert(db, k, v)
         IN /\ Find(s, k) = [value |-> v, found |-> TRUE]
            /\ PageCount(s) >= PageCount(db)
            /\ FreeLen(s) <= FreeLen(db)
            /\ PageCount(s) > PageCount(db) => FreeLen(s) = 0
            /\ (Drained /\ PageCount(db) > 1) =>
                 /\ PageCount(s) = PageCount(db)
                 /\ RootPage(s) = db.meta.FreeList

\* the full tree (three levels) was loaded and torn down, and the keys
\* inserted afterwards live in pages taken from the free list
C7_Witness ==
  /\ dir = "drain"
  /\ loaded = MaxKey + 1
  /\ ops = budget
  /\ RootIsInternal
  /\ PageCount(db) > 8
  /\ FreeLen(db) > 0
  /\ FreeLen(db) + 3 <= PageCount(db) - 1


(***************************************************************************)
(* Observations of the composite engine.                                   *)
(***************************************************************************)
\* what the reference map of root r answers for the pair p
MultiRefFind(r, p) ==
  IF p \in DOMAIN mref[r] THEN [value |-> mref[r][p], found |-> TRUE] ELSE NotFound

\* the entries of the reference map m between lo and hi, in ascending order
MultiRefRange(m, lo, hi) ==
  LET InRange(p) == /\ p \in DOMAIN m
                    /\ compareKeys(lo[1], lo[2], p[1], p[2]) <= 0
                    /\ compareKeys(p[1], p[2], hi[1], hi[2]) <= 0
      Kept(sel) == [i \in 1..Len(sel) |->
                      [Key1 |-> sel[i][1], Key2 |-> sel[i][2], Value |-> m[sel[i]]]]
  IN Kept(SelectSeq(SortedPairs, InRange))

RangeStarts == Pairs \cup {<<0, 0>>}
RangeEnds == Pairs \cup {<<MaxUint64, MaxUint64>>}

RECURSIVE LeafEntries(_, _), ChildEntries(_, _, _)
\* the leaf entries of the subtree of page pageID, from left to right
LeafEntries(c, pageID) ==
  LET data == bp_GetPage(c, pageID)
  IN IF IsNil(data) THEN <<>>
     ELSE IF GetNodeType(data) = NodeTypeLeaf
     THEN [i \in 1..GetKeyCount(data) |-> <<data.keys[i], data.keys2[i], data.vals[i]>>]
     ELSE ChildEntries(c, data, 0)

ChildEntries(c, data, i) ==
  IF i > GetKeyCount(data) THEN <<>>
  ELSE LeafEntries(c, GetChild(data, i)) \o ChildEntries(c, data, i + 1)

\* the number of leaf entries of root rootID that hold the pair p
Occurrences(c, rootID, p) ==
  LET In(e) == Cardinality({i \in 1..Len(e) : e[i][1] = p[1] /\ e[i][2] = p[2]})
  IN IF bp_GetRootPage(c, rootID) = 0 THEN 0
     ELSE In(LeafEntries(c, bp_GetRootPage(c, rootID)))

RootIsInternalOf(c, rootID) ==
  /\ bp_GetRootPage(c, rootID) # 0
  /\ GetNodeType(bp_GetPage(c, bp_GetRootPage(c, rootID))) = NodeTypeInternal

\* a pair of root r whose key1 routes to a leaf that does not hold it
Straddles(r) ==
  \E p \in DOMAIN mref[r] :
    /\ RootIsInternalOf(mt, r)
    /\ Occurrences(mt, r, p) = 1
    /\ ~bt_Find(mt, r, p[1], p[2]).found

\* a scan that never returns has no result: its calls are left out
Outcome(scan) ==
  IF scan.err = "diverges" THEN [calls |-> <<>>, err |-> "diverges"] ELSE scan

\* the scans observed: everything, everything from the last key1 on, and
\* the entries of the first and of the last key1
ObsRanges ==
  LET last == SortedPairs[MaxPairs][1]
  IN {<<0, 0, MaxUint64, MaxUint64>>, <<last, 0, MaxUint64, MaxUint64>>,
      <<0, 0, 0, Key2Width>>, <<last, 1, last, Key2Width>>}

\* everything Find, FindRange and Count tell about root r
RootObs(c, r) ==
  [find |-> [p \in Pairs |-> bt_Find(c, r, p[1], p[2])],
   count |-> bt_Count(c, r),
   scan |-> [b \in ObsRanges |->
               Outcome(bt_FindRange(c, r, b[1], b[2], b[3], b[4], 0))]]

\* C2: composite engine: after inserts of pairwise distinct pairs into a
\* root, Find returns (v, true) for every inserted pair, also when the
\* entries of one key1 straddle a leaf split, and (0, false) for every other
\* pair, those that share key1 or key2 with an inserted pair included
C2_FindComposite ==
  \A r \in roots, p \in Pairs : bt_Find(mt, r, p[1], p[2]) = MultiRefFind(r, p)

\* C3: composite engine: Insert of a pair that is present overwrites the
\* value in place: Count is unchanged, no page is allocated (PageCount and
\* the free list stay), and the pair is in exactly one leaf entry afterwards
C3_UpdateInPlace ==
  \A r \in roots, v \in Values :
    \A p \in DOMAIN mref[r] :
      LET After(res) ==
            /\ res.err = "none"
            /\ bt_Count(res.st, r) = bt_Count(mt, r)
            /\ bp_PageCount(res.st) = bp_PageCount(mt)
            /\ res.st.meta.FreeList = mt.meta.FreeList
            /\ Occurrences(res.st, r, p) = 1
            /\ bt_Find(res.st, r, p[1], p[2]) = [value |-> v, found |-> TRUE]
      IN After(bt_Insert(mt, r, p[1], p[2], v))

\* C5: composite engine: FindRange with a callback that always returns
\* true calls it once for every present entry between (start1,start2) and
\* (end1,end2), for no other entry, in ascending lexicographic order, and
\* returns nil
C5_FindRangeComposite ==
  \A r \in roots, lo \in RangeStarts, hi \in RangeEnds :
    bt_FindRange(mt, r, lo[1], lo[2], hi[1], hi[2], 0) =
      [calls |-> MultiRefRange(mref[r], lo, hi), err |-> "none"]

\* C9: after Flush, Close and Open of the same file, Find, FindRange and
\* Count answer on every root ID what they answered before Close, and the
\* root table, the root count, the page count and the head of the free list
\* are the same
C9_Persistence ==
  phase = "reopened" =>
    /\ \A r \in RootIDs : RootObs(mt, r) = RootObs(closedFrom, r)
    /\ \A r \in RootIDs : bp_GetRootPage(mt, r) = bp_GetRootPage(closedFrom, r)
    /\ mt.meta.RootTable = closedFrom.meta.RootTable
    /\ bt_RootCount(mt) = bt_RootCount(closedFrom)
    /\ bp_PageCount(mt) = bp_PageCount(closedFrom)
    /\ mt.meta.FreeList = closedFrom.meta.FreeList

\* a reopened file with every root created, one of them with entries behind
\* an internal root
C9_Witness ==
  /\ phase = "reopened"
  /\ roots = RootIDs
  /\ \E r \in roots : /\ RootIsInternalOf(mt, r)
                       /\ Cardinality(DOMAIN mref[r]) = MaxPersistOps

\* C10: for distinct created roots a and b, no Insert and no Delete on a
\* changes what Find, FindRange and Count answer on b
C10_RootIsolation ==
  \A a \in roots, p \in Pairs :
    \A b \in roots \ {a} :
      /\ RootObs(bt_Delete(mt, a, p[1], p[2]).st, b) = RootObs(mt, b)
      /\ \A v \in Values :
           RootObs(bt_Insert(mt, a, p[1], p[2], v).st, b) = RootObs(mt, b)


(***************************************************************************)
(* Root directory.                                                         *)
(***************************************************************************)
Slot(c, r) == c.meta.RootTable[r]

\* C11: a slot of the root table is 0 only while its root is unused; the
\* slot of a root that was created and not deleted holds the reserved
\* marker whenever its tree is empty; so CreateRoot never returns the ID of
\* a root that was created and not deleted
C11_SlotStates ==
  /\ \A r \in roots : Slot(mt, r) # 0
  /\ \A r \in roots : DOMAIN mref[r] = {} => Slot(mt, r) = ReservedMarker
  /\ bt_CreateRoot(mt).err = "none" => bt_CreateRoot(mt).id \notin roots


\* C12: RootCount() is the number of active roots, the root IDs CreateRoot
\* returned and DeleteRoot has not taken back, after every sequence of
\* CreateRoot, DeleteRoot, Insert and Delete
C12_RootCountIsActiveRoots == bt_RootCount(mt) = Cardinality(roots)


FreeSlots(c) == {i \in RootIDs : Slot(c, i) = 0}
Smallest(S) == CHOOSE i \in S : \A j \in S : i <= j

\* C13: CreateRoot returns the smallest index whose slot is 0, stores the
\* reserved marker there and adds one to the root count, leaving the pages,
\* the page count and the free list alone; with no slot at 0 it returns an
\* error and changes nothing
C13_CreateRoot ==
  LET Created(res) ==
        IF FreeSlots(mt) # {}
        THEN /\ res.err = "none"
             /\ res.id = Smallest(FreeSlots(mt))
             /\ res.st.meta.RootTable =
                  [mt.meta.RootTable EXCEPT ![res.id] = ReservedMarker]
             /\ bt_RootCount(res.st) = bt_RootCount(mt) + 1
             /\ bp_PageCount(res.st) = bp_PageCount(mt)
             /\ res.st.meta.FreeList = mt.meta.FreeList
             /\ res.st.pages = mt.pages
             /\ bp_Deserialize(res.st.page0) = res.st.meta
        ELSE /\ res.err = "maximum roots reached"
             /\ res.st = mt
  IN Created(bt_CreateRoot(mt))

\* the first root was deleted while every later one is active: CreateRoot
\* has to reuse index 0
C13_Witness ==
  /\ roots = RootIDs \ {0}
  /\ Slot(mt, 0) = 0
  /\ \A r \in roots : Slot(mt, r) # 0


\* C14: DeleteRoot(r) with r < MaxRoots sets slot r to 0 and leaves every
\* other slot, the page count, the free list and every page as they were, so
\* the other roots answer as before and Find and Count on r report an empty
\* tree; the root count goes down only when the slot was in use, an unused
\* slot makes the call a no-op; r >= MaxRoots is an error that changes nothing
C14_DeleteRootFrame ==
  \A r \in 0..MaxRoots :
    LET Deleted(res) ==
          IF r >= MaxRoots THEN res.err = "invalid rootID" /\ res.st = mt
          ELSE /\ res.err = "none"
               /\ Slot(res.st, r) = 0
               /\ \A q \in RootIDs \ {r} : Slot(res.st, q) = Slot(mt, q)
               /\ bp_PageCount(res.st) = bp_PageCount(mt)
               /\ res.st.meta.FreeList = mt.meta.FreeList
               /\ res.st.pages = mt.pages
               /\ \A q \in RootIDs \ {r} : RootObs(res.st, q) = RootObs(mt, q)
               /\ \A p \in Pairs : bt_Find(res.st, r, p[1], p[2]) = NotFound
               /\ bt_Count(res.st, r) = [n |-> 0, outcome |-> "none"]
               /\ bt_RootCount(res.st) =
                    IF Slot(mt, r) # 0 /\ bt_RootCount(mt) > 0
                    THEN bt_RootCount(mt) - 1 ELSE bt_RootCount(mt)
               /\ Slot(mt, r) = 0 => res.st = mt
               /\ bp_Deserialize(res.st.page0) = res.st.meta
    IN Deleted(bt_DeleteRoot(mt, r))

\* a root that held entries was deleted: every slot is 0 again, its pages
\* are neither in a tree nor on the free list
C14_Witness ==
  /\ roots = {}
  /\ \A r \in RootIDs : Slot(mt, r) = 0
  /\ bp_PageCount(mt) > 1
  /\ mt.meta.FreeList = 0


RECURSIVE PagesUnder(_, _, _), PagesOfChildren(_, _, _, _)
\* the pages of the subtree of page pageID, each as often as a child
\* pointer leads to it
PagesUnder(c, pageID, fuel) ==
  LET data == bp_GetPage(c, pageID)
  IN IF IsNil(data) \/ fuel = 0 \/ GetNodeType(data) = NodeTypeLeaf THEN <<pageID>>
     ELSE <<pageID>> \o PagesOfChildren(c, data, 0, fuel - 1)

PagesOfChildren(c, data, i, fuel) ==
  IF i > GetKeyCount(data) THEN <<>>
  ELSE PagesUnder(c, GetChild(data, i), fuel) \o PagesOfChildren(c, data, i + 1, fuel)

\* the pages reached from the slot of root r
TreePages(c, r) ==
  IF bp_GetRootPage(c, r) = 0 THEN <<>>
  ELSE PagesUnder(c, bp_GetRootPage(c, r), Len(c.pages) + 1)

RECURSIVE AllTreePages(_, _)
AllTreePages(c, r) ==
  IF r >= MaxRoots THEN <<>> ELSE TreePages(c, r) \o AllTreePages(c, r + 1)

\* the free list of the composite pager, from its head
RECURSIVE bp_FreeListFrom(_, _, _)
bp_FreeListFrom(c, id, fuel) ==
  IF id = 0 \/ fuel = 0 THEN <<>>
  ELSE <<id>> \o bp_FreeListFrom(c, bp_Slice(c, id).freeNext, fuel - 1)

bp_FreeListSeq(c) == bp_FreeListFrom(c, c.meta.FreeList, Len(c.pages) + 1)

SeqRange(q) == {q[i] : i \in 1..Len(q)}
NoRepeat(q) == \A i, j \in 1..Len(q) : q[i] = q[j] => i = j

\* C15: after inserts and deletes on created roots the pages reachable from
\* the root slots and the pages of the free list are disjoint, the free list
\* repeats no page and ends at 0, and together they are the pages
\* 1 .. PageCount - 1
C15_FreeListCorrect ==
  LET Partition(tree, free) ==
        /\ SeqRange(tree) \cap SeqRange(free) = {}
        /\ NoRepeat(free)
        /\ Len(free) <= Len(mt.pages)
        /\ SeqRange(tree) \cup SeqRange(free) = 1..(bp_PageCount(mt) - 1)
  IN Partition(AllTreePages(mt, 0), bp_FreeListSeq(mt))

\* two roots hold entries, one of them under an internal root, and a merge
\* or an emptied tree has put pages on the free list
C15_Witness ==
  /\ \A r \in RootIDs : DOMAIN mref[r] # {}
  /\ \E r \in RootIDs : RootIsInternalOf(mt, r)
  /\ Len(bp_FreeListSeq(mt)) >= 1


\* C20: after CreateRoot, Insert and Delete every root slot is 0, the
\* reserved marker or a page in 1 .. PageCount - 1 that is not on the free
\* list; the pages reached from a root form a tree (no page has two
\* parents) and no page is reached from two roots
C20_RootedTrees ==
  LET Shape(all, free) ==
        /\ \A r \in RootIDs :
             \/ Slot(mt, r) \in {0, ReservedMarker}
             \/ /\ 1 <= Slot(mt, r) /\ Slot(mt, r) < bp_PageCount(mt)
                /\ Slot(mt, r) \notin SeqRange(free)
        /\ \A r \in RootIDs : NoRepeat(TreePages(mt, r))
        /\ NoRepeat(all)
        /\ \A i \in 1..Len(all) : ~IsNil(bp_GetPage(mt, all[i]))
  IN Shape(AllTreePages(mt, 0), bp_FreeListSeq(mt))

\* every root has been created and has an internal root page over its
\* leaves
C20_Witness ==
  /\ roots = RootIDs
  /\ \A r \in RootIDs : RootIsInternalOf(mt, r)


RECURSIVE NodesUnder(_, _, _), NodesOfChildren(_, _, _, _)
\* single-key engine: the pages of the subtree of page pageID
NodesUnder(st, pageID, fuel) ==
  LET data == GetPage(st, pageID)
  IN IF IsNil(data) \/ fuel = 0 \/ GetNodeType(data) = NodeTypeLeaf THEN <<pageID>>
     ELSE <<pageID>> \o NodesOfChildren(st, data, 0, fuel - 1)

NodesOfChildren(st, data, i, fuel) ==
  IF i > GetKeyCount(data) THEN <<>>
  ELSE NodesUnder(st, GetChild(data, i), fuel) \o NodesOfChildren(st, data, i + 1, fuel)

TreeNodes(st) ==
  IF RootPage(st) = 0 THEN <<>> ELSE NodesUnder(st, RootPage(st), Len(st.pages) + 1)

\* the pages of the tree that are not its root
NonRootNodes(st) == SeqRange(TreeNodes(st)) \ {RootPage(st)}

\* C16: after every Insert and Delete every leaf that is not the root holds
\* at least MinLeafKeys entries and every internal node that is not the root
\* at least MinInternalKeys keys, the two halves of an internal split
\* included
C16_Balance ==
  \A id \in NonRootNodes(db) :
    LET data == GetPage(db, id)
    IN IF GetNodeType(data) = NodeTypeLeaf
       THEN GetKeyCount(data) >= MinLeafKeys
       ELSE GetKeyCount(data) >= MinInternalKeys


RECURSIVE KeysUnder(_, _, _), KeysOfChildren(_, _, _, _)
\* single-key engine: the keys stored in the leaves of the subtree of page
\* pageID
KeysUnder(st, pageID, fuel) ==
  LET data == GetPage(st, pageID)
  IN IF IsNil(data) \/ fuel = 0 THEN {}
     ELSE IF GetNodeType(data) = NodeTypeLeaf
     THEN {data.keys[i] : i \in 1..GetKeyCount(data)}
     ELSE KeysOfChildren(st, data, 0, fuel - 1)

KeysOfChildren(st, data, i, fuel) ==
  IF i > GetKeyCount(data) THEN {}
  ELSE KeysUnder(st, GetChild(data, i), fuel) \cup KeysOfChildren(st, data, i + 1, fuel)

SubtreeKeys(st, pageID) == KeysUnder(st, pageID, Len(st.pages) + 1)

\* the internal nodes of the tree
InternalNodes(st) ==
  {id \in SeqRange(TreeNodes(st)) : GetNodeType(GetPage(st, id)) = NodeTypeInternal}

\* C17: single-key engine: in every internal node the separators ascend
\* strictly, every key under child i is smaller than separator i and every
\* key under child i + 1 is at least separator i; splits, borrows and merges
\* of leaves and of internal nodes keep it so
C17_SeparatorLaw ==
  \A id \in InternalNodes(db) :
    LET data == GetPage(db, id)
    IN \A i \in 0..(GetKeyCount(data) - 1) :
         /\ i > 0 => GetKeyAt(data, i - 1) < GetKeyAt(data, i)
         /\ \A k \in SubtreeKeys(db, GetChild(data, i)) : k < GetKeyAt(data, i)
         /\ \A k \in SubtreeKeys(db, GetChild(data, i + 1)) : k >= GetKeyAt(data, i)


\* a Delete on a tree of three levels has merged two leaves, then two
\* internal nodes, and replaced the root by the merged node: three pages are
\* on the free list and the root separates leaves
C17_Witness ==
  /\ ops >= 1
  /\ FreeLen(db) >= 3
  /\ InternalNodes(db) = {RootPage(db)}
  /\ GetKeyCount(GetPage(db, RootPage(db))) = MaxInternalKeys


\* separator i of the internal node data is the smallest key stored under
\* child i + 1
Anchored(st, data, i) ==
  /\ GetKeyAt(data, i) \in SubtreeKeys(st, GetChild(data, i + 1))
  /\ \A k \in SubtreeKeys(st, GetChild(data, i + 1)) : GetKeyAt(data, i) <= k

\* C18 as stated: after every Insert and Delete every separator equals the
\* smallest key stored in the subtree right of it
C18_LeafAnchored ==
  \A id \in InternalNodes(db) :
    \A i \in 0..(GetKeyCount(GetPage(db, id)) - 1) : Anchored(db, GetPage(db, id), i)

\* C18: every separator is at most the smallest key stored in the subtree
\* right of it, which is never empty, and greater than every key stored
\* left of it; it equals the smallest key right of it as long as no Delete
\* has been made
C18_AnchoredUntilDelete ==
  \A id \in InternalNodes(db) :
    \A i \in 0..(GetKeyCount(GetPage(db, id)) - 1) :
      /\ SubtreeKeys(db, GetChild(GetPage(db, id), i + 1)) # {}
      /\ \A k \in SubtreeKeys(db, GetChild(GetPage(db, id), i + 1)) :
           GetKeyAt(GetPage(db, id), i) <= k
      /\ \A k \in SubtreeKeys(db, GetChild(GetPage(db, id), i)) :
           k < GetKeyAt(GetPage(db, id), i)
      /\ ops = 0 => Anchored(db, GetPage(db, id), i)

\* a tree of three levels after a Delete: one separator is no longer a
\* stored key, the others still are the smallest keys right of them
C18_Witness ==
  /\ ops >= 1
  /\ \E id \in InternalNodes(db) : id # RootPage(db)
  /\ \E id \in InternalNodes(db) :
       \E i \in 0..(GetKeyCount(GetPage(db, id)) - 1) : ~Anchored(db, GetPage(db, id), i)
  /\ \E id \in InternalNodes(db) :
       \E i \in 0..(GetKeyCount(GetPage(db, id)) - 1) : Anchored(db, GetPage(db, id), i)


\* composite engine: the leftmost leaf under page pageID
RECURSIVE bt_Leftmost(_, _, _)
bt_Leftmost(c, pageID, fuel) ==
  LET data == bp_GetPage(c, pageID)
  IN IF IsNil(data) \/ fuel = 0 \/ GetNodeType(data) = NodeTypeLeaf THEN pageID
     ELSE bt_Leftmost(c, GetChild(data, 0), fuel - 1)

\* the pages met from page id on by following next-leaf pointers, cut after
\* fuel pages
RECURSIVE bt_Chain(_, _, _)
bt_Chain(c, id, fuel) ==
  IF id = 0 \/ fuel = 0 THEN <<>>
  ELSE IF IsNil(bp_GetPage(c, id)) THEN <<id>>
  ELSE <<id>> \o bt_Chain(c, bp_GetPage(c, id).next, fuel - 1)

LeafChain(c, r) ==
  bt_Chain(c, bt_Leftmost(c, bp_GetRootPage(c, r), Len(c.pages) + 1), Len(c.pages) + 1)

\* the leaves of the tree of root r, from left to right
LeavesOf(c, r) ==
  LET IsLeaf(id) == GetNodeType(bp_GetPage(c, id)) = NodeTypeLeaf
  IN SelectSeq(TreePages(c, r), IsLeaf)

RECURSIVE ChainEntries(_, _, _)
\* the pairs stored in the pages of a chain, in the order of the chain
ChainEntries(c, chain, i) ==
  IF i > Len(chain) THEN <<>>
  ELSE LET data == bp_GetPage(c, chain[i])
       IN [j \in 1..GetKeyCount(data) |-> <<data.keys[j], data.keys2[j]>>]
            \o ChainEntries(c, chain, i + 1)

\* C19: from the leftmost leaf of a tree the next-leaf pointers lead through
\* every leaf of the tree once, through no freed page and no page of another
\* root, and end with 0; the entries met are the present pairs, each once, in
\* strictly ascending order
C19_LeafChain ==
  \A r \in roots :
    LET Chained(chain) ==
          /\ SeqRange(chain) = SeqRange(LeavesOf(mt, r))
          /\ NoRepeat(chain)
          /\ SeqRange(chain) \cap SeqRange(bp_FreeListSeq(mt)) = {}
          /\ \A q \in roots \ {r} : SeqRange(chain) \cap SeqRange(TreePages(mt, q)) = {}
          /\ bp_GetPage(mt, chain[Len(chain)]).next = 0
          /\ ChainEntries(mt, chain, 1) = SelectSeq(SortedPairs, LAMBDA p : p \in DOMAIN mref[r])
    IN bp_GetRootPage(mt, r) # 0 => Chained(LeafChain(mt, r))


(***************************************************************************)
(* Threads.                                                                *)
(***************************************************************************)
ReaderAt == {"findRoot", "findSearch", "findDone", "countScan", "countDone"}
WriterAt == {"insertTree", "insertRoot", "deleteTree", "deleteRoot", "checkpoint"}
Reading == {t \in Threads : pc[t] \in ReaderAt}
Writing == {t \in Threads : pc[t] \in WriterAt}

\* C21: single-key engine: no reader is inside Find or Count while a writer
\* is inside Insert, Delete or Checkpoint, and no two writers are inside at
\* once; so every Find and Count returns what the map holds between two
\* whole writes, and with no writer inside every Find on the tree answers as
\* the map does
C21_WritersExcludeReaders ==
  /\ Writing # {} => Reading = {}
  /\ Cardinality(Writing) <= 1
  /\ Reading = mu.readers
  /\ Writing = IF mu.writer = NoThread THEN {} ELSE {mu.writer}
  /\ \A t \in Threads :
       /\ pc[t] = "findDone" => job[t].result = RefFind(job[t].key)
       /\ pc[t] = "countDone" => job[t].count = Cardinality(DOMAIN ref)
  /\ Writing = {} => \A k \in ThreadKeys : Find(db, k) = RefFind(k)

\* every thread is inside Find at once and has found its key, after
\* MaxThreadOps writes that left an internal root
C21_Witness ==
  /\ ops = MaxThreadOps
  /\ Reading = Threads
  /\ RootIsInternal
  /\ \A t \in Threads : pc[t] = "findDone" /\ job[t].result.found

BtReaderAt == {"btFindSearch", "btFindDone"}
BtWriterAt == {"btInsertRoot", "btDeleteRoot"}
BtReading == {t \in Threads : pc[t] \in BtReaderAt}
BtWriting == {t \in Threads : pc[t] \in BtWriterAt}

\* C22: the composite wrapper guards its operations as the single-key tree
\* does: no thread is inside Find while another is inside Insert or Delete,
\* and a Find never descends on a mapping that was replaced after it started
C22_CompositeGuard ==
  /\ BtWriting # {} => BtReading = {}
  /\ \A t \in Threads : pc[t] = "btFindSearch" => job[t].size = mt.size

\* the Insert of key k replaces the mapping
Remaps(k) == Insert(db, k, (k % 2) * MaxVal).size # db.size

\* the keys the next Insert of SpecGrow may take
GrowNext ==
  IF DOMAIN ref = {} THEN GrowKeys
  ELSE {k \in GrowKeys : (\A j \in DOMAIN ref : k + 1 <= j) \/ (\A j \in DOMAIN ref : j + 1 <= k)}

InvalidRootIDs == {MaxRoots, MaxRoots + 1}

\* C24: Insert with a root ID >= MaxRoots returns an error and leaves
\* page_count, the free list and every root slot as they were (no page is
\* allocated and lost); Find and Delete with such a root ID return not-found
\* and false and change nothing.
C24_InvalidRootID ==
  \A r \in InvalidRootIDs, p \in RootPairs :
    LET Refused(x) ==
          /\ x.err # "none"
          /\ x.st.meta.PageCount = mt.meta.PageCount
          /\ bp_FreeListSeq(x.st) = bp_FreeListSeq(mt)
          /\ x.st.meta.RootTable = mt.meta.RootTable
        NotDeleted(x) == ~x.deleted /\ x.st = mt
    IN /\ Refused(bt_Insert(mt, r, p[1], p[2], PairVal(p[1], p[2])))
       /\ ~bt_Find(mt, r, p[1], p[2]).found
       /\ NotDeleted(bt_Delete(mt, r, p[1], p[2]))

\* n successive AllocatePage calls: the IDs returned, the page counts after
\* each call, and the pager at the end
RECURSIVE AllocateTimes(_, _)
AllocateTimes(st, n) ==
  LET More(a, r) == [st |-> r.st, ids |-> <<a.id>> \o r.ids,
                     counts |-> <<PageCount(a.st)>> \o r.counts]
      Next1(a) == More(a, AllocateTimes(a.st, n - 1))
  IN IF n = 0 THEN [st |-> st, ids |-> <<>>, counts |-> <<>>]
     ELSE Next1(AllocatePage(st))

\* C25: AllocatePage with a non-empty free list returns the head, makes the
\* page's next pointer the new head, returns the page zeroed and leaves
\* page_count; otherwise it returns page_count and adds one to it.  It never
\* returns 0 or a page reachable from the root; on a new file successive
\* calls return 1, 2, 3, ... and n calls leave page_count = n + 1.
C25_AllocatePolicy ==
  LET free == FreeListSeq(db)
      Policy(a) ==
        /\ a.id # 0
        /\ a.id \notin SeqRange(TreeNodes(db))
        /\ IF db.meta.FreeList # 0
           THEN /\ a.id = db.meta.FreeList
                /\ a.id = free[1]
                /\ a.st.meta.FreeList = IF Len(free) >= 2 THEN free[2] ELSE 0
                /\ FreeListSeq(a.st) = Tail(free)
                /\ GetPage(a.st, a.id) = ZeroPage
                /\ PageCount(a.st) = PageCount(db)
           ELSE /\ a.id = PageCount(db)
                /\ PageCount(a.st) = PageCount(db) + 1
      Fresh(r) ==
        /\ r.ids = [i \in 1..MaxAllocs |-> i]
        /\ r.counts = [i \in 1..MaxAllocs |-> i + 1]
  IN /\ Policy(AllocatePage(db))
     /\ Fresh(AllocateTimes(Open(FreshFile).st, MaxAllocs))

\* a tree of three levels with two pages on the free list: the next
\* AllocatePage pops the head and the one after it the second page
C25_Witness ==
  /\ FreeLen(db) >= 2
  /\ Cardinality(InternalNodes(db)) >= 3
  /\ db.size > InitialFileSize

(***************************************************************************)
(* The pager on its own: AllocatePage and FreePage in any order on a new   *)
(* file.  FreePage takes a page that was handed out and is not free.       *)
(***************************************************************************)
InitPager == InitWith(MaxPagerFrees)

DoAllocatePage ==
  /\ db.meta.FreeList # 0 \/ PageCount(db) < MaxPagerPages
  /\ db' = AllocatePage(db).st
  /\ UNCHANGED <<ref, dir, loaded, ops, budget>>
  /\ UNCHANGED <<mvars, tvars>>

DoFreePage(id) ==
  /\ id \in 1..(PageCount(db) - 1)
  /\ id \notin FreeSet(db)
  /\ ops < budget
  /\ db' = FreePage(db, id)
  /\ ops' = ops + 1
  /\ UNCHANGED <<ref, dir, loaded, budget>>
  /\ UNCHANGED <<mvars, tvars>>

NextPager ==
  \/ DoAllocatePage
  \/ \E id \in 1..MaxPagerPages : DoFreePage(id)

SpecPager == InitPager /\ [][NextPager]_vars

\* the pages handed out and not freed
AllocatedPages == (1..(PageCount(db) - 1)) \ FreeSet(db)

\* C26: the free list is LIFO: FreePage(id) of an allocated page followed by
\* AllocatePage returns id, puts the free-list head back to what it was
\* before the FreePage and leaves page_count; after FreePage(a) and
\* FreePage(b) the next two AllocatePage calls return b, then a.
C26_FreeListLIFO ==
  LET Back(a) ==
        /\ a.st.meta.FreeList = db.meta.FreeList
        /\ FreeListSeq(a.st) = FreeListSeq(db)
        /\ PageCount(a.st) = PageCount(db)
      Two(r, a, b) == r.ids = <<b, a>> /\ Back(r)
  IN /\ \A id \in AllocatedPages :
          /\ AllocatePage(FreePage(db, id)).id = id
          /\ Back(AllocatePage(FreePage(db, id)))
     /\ \A a \in AllocatedPages, b \in AllocatedPages :
          a # b => Two(AllocateTimes(FreePage(FreePage(db, a), b), 2), a, b)

\* after growth of the file, some pages allocated and a free list of two
\* pages freed out of order
C26_Witness ==
  /\ FreeLen(db) = 2
  /\ FreeListSeq(db)[1] < FreeListSeq(db)[2]
  /\ Cardinality(AllocatedPages) >= 4
  /\ ops = MaxPagerFrees

\* size is the initial size times a power of two
RECURSIVE IsDoubled(_)
IsDoubled(size) ==
  IF size = InitialFileSize THEN TRUE
  ELSE IF size < InitialFileSize \/ size % GrowthFactor # 0 THEN FALSE
  ELSE IsDoubled(size \div GrowthFactor)

\* C27: for a file created by the pager the mapped size is at least
\* page_count * PageSize, a multiple of PageSize and the initial size times a
\* power of two; the mapping grows only in an AllocatePage whose new page
\* ends beyond the mapped size, it never shrinks, and page_count never
\* decreases.
C27_MappingSize ==
  /\ [](/\ db.size >= PageCount(db) * PageSize
        /\ db.size % PageSize = 0
        /\ IsDoubled(db.size))
  /\ [][/\ db'.size >= db.size
        /\ PageCount(db') >= PageCount(db)
        /\ db'.size # db.size =>
             /\ db.meta.FreeList = 0
             /\ PageCount(db') = PageCount(db) + 1
             /\ (PageCount(db) + 1) * PageSize > db.size
             /\ db'.size = db.size * GrowthFactor]_vars

\* the file has doubled twice and holds a free page
C27_Witness ==
  /\ db.size = InitialFileSize * GrowthFactor * GrowthFactor
  /\ PageCount(db) * PageSize > InitialFileSize * GrowthFactor
  /\ FreeLen(db) >= 1

(***************************************************************************)
(* Open of the composite pager on a stored file.  The file is any meta     *)
(* page with small field values, the magic number zero, right or wrong and *)
(* the version right or wrong; closedFrom keeps the file as it was before  *)
(* Open, phase the outcome of Open: "open" or the error.                   *)
(***************************************************************************)
StoredMetas ==
  [Magic : {0, Magic, Magic + 1}, Version : {bp_Version - 1, bp_Version, bp_Version + 1},
   RootCount : 0..MaxStored, PageCount : 0..MaxStored, FreeList : 0..MaxStored,
   RootTable : [RootIDs -> 0..MaxStored]]

StoredFile(m) == [page0 |-> bp_Serialize(m, bp_ZeroMeta), pages |-> <<>>, size |-> InitialFileSize]

InitStored ==
  /\ db = Open(FreshFile).st
  /\ ref = <<>>
  /\ dir = "none"
  /\ loaded = 0
  /\ ops = 0
  /\ budget = 0
  /\ \E m \in StoredMetas :
       /\ mt = [meta |-> bp_Deserialize(bp_ZeroMeta), page0 |-> StoredFile(m).page0,
                pages |-> <<>>, size |-> InitialFileSize, mapped |-> FALSE]
       /\ closedFrom = mt
  /\ mref = [r \in RootIDs |-> <<>>]
  /\ roots = {}
  /\ phase = "closed"
  /\ mu = [readers |-> {}, writer |-> NoThread]
  /\ pc = [t \in Threads |-> "idle"]
  /\ job = [t \in Threads |-> NoJob]

\* Open(path): on an error the mapping is closed and no pager is returned
DoOpenStored ==
  LET Opened(r) ==
        /\ mt' = IF r.err = "none" THEN r.st ELSE bp_Close(r.st)
        /\ phase' = IF r.err = "none" THEN "open" ELSE r.err
  IN /\ phase = "closed"
     /\ Opened(bp_Open(FileOf(mt)))
     /\ UNCHANGED <<svars, ops, budget, mref, roots, closedFrom, tvars>>

NextStored == DoOpenStored

SpecStored == InitStored /\ [][NextStored]_vars

\* the meta page stored in the file before Open
StoredBefore == bp_Deserialize(closedFrom.page0)

\* C28: Open on a file with magic zero initialises the meta page (magic,
\* version, page_count = 1, free list = 0, all roots 0) and succeeds; with a
\* non-zero magic other than Magic it fails with the bad-format error; with
\* the right magic and another version it fails with the
\* unsupported-version error; a failed Open leaves the stored meta page as
\* it was and returns no pager.
C28_OpenValidation ==
  phase # "closed" =>
    /\ StoredBefore.Magic = 0 =>
         /\ phase = "open"
         /\ mt.meta.Magic = Magic
         /\ mt.meta.Version = bp_Version
         /\ mt.meta.PageCount = 1
         /\ mt.meta.FreeList = 0
         /\ \A r \in RootIDs : mt.meta.RootTable[r] = 0
         /\ bp_Deserialize(mt.page0) = mt.meta
    /\ StoredBefore.Magic \notin {0, Magic} =>
         /\ phase = "bad magic"
         /\ mt.page0 = closedFrom.page0
         /\ ~mt.mapped
    /\ StoredBefore.Magic = Magic /\ StoredBefore.Version # bp_Version =>
         /\ phase = "unsupported version"
         /\ mt.page0 = closedFrom.page0
         /\ ~mt.mapped

(***************************************************************************)
(* One leaf on its own: Put, Delete and SetNextLeaf in any order on the    *)
(* first page of a new file, Put only when the key is present or the leaf  *)
(* has room.  dir records what the last call returned.                     *)
(***************************************************************************)
LeafKeys == 0..MaxLeafKey
LeafPage == AllocatePage(Open(FreshFile).st).id
TheLeaf == GetPage(db, LeafPage)

InitLeaf ==
  /\ db = SetPage(AllocatePage(Open(FreshFile).st).st, LeafPage, NewLeafNode(ZeroPage))
  /\ ref = <<>>
  /\ dir = "none"
  /\ loaded = 0
  /\ ops = 0
  /\ budget = 0
  /\ mt = bt_Open(bp_FreshFile).st
  /\ mref = [r \in RootIDs |-> <<>>]
  /\ roots = {}
  /\ phase = "open"
  /\ closedFrom = bt_Open(bp_FreshFile).st
  /\ mu = [readers |-> {}, writer |-> NoThread]
  /\ pc = [t \in Threads |-> "idle"]
  /\ job = [t \in Threads |-> NoJob]

DoLeafPut(k, v) ==
  /\ ~Leaf_IsFull(TheLeaf) \/ k \in DOMAIN ref
  /\ db' = SetPage(db, LeafPage, Leaf_Put(TheLeaf, k, v))
  /\ ref' = RefPut(ref, k, v)
  /\ dir' = IF Leaf_PutInserted(TheLeaf, k) THEN "inserted" ELSE "updated"
  /\ UNCHANGED <<loaded, ops, budget>>
  /\ UNCHANGED <<mvars, tvars>>

DoLeafDelete(k) ==
  /\ db' = SetPage(db, LeafPage, Leaf_Delete(TheLeaf, k).node)
  /\ ref' = RefRemove(ref, k)
  /\ dir' = IF Leaf_Delete(TheLeaf, k).deleted THEN "deleted" ELSE "absent"
  /\ UNCHANGED <<loaded, ops, budget>>
  /\ UNCHANGED <<mvars, tvars>>

DoLeafSetNext(p) ==
  /\ db' = SetPage(db, LeafPage, setNextLeaf(TheLeaf, p))
  /\ UNCHANGED <<ref, dir, loaded, ops, budget>>
  /\ UNCHANGED <<mvars, tvars>>

NextLeaf ==
  \/ \E k \in LeafKeys, v \in 0..MaxVal : DoLeafPut(k, v)
  \/ \E k \in LeafKeys : DoLeafDelete(k)
  \/ \E p \in 0..MaxNextLeaf : DoLeafSetNext(p)

SpecLeaf == InitLeaf /\ [][NextLeaf]_vars

\* C29: after any Puts and Deletes on one leaf within its capacity the keys
\* are strictly ascending without duplicates or gaps, the count is the
\* number of keys put and not deleted, Put returns true exactly for an
\* absent key (an overwrite returns false and leaves the count), Delete
\* returns true exactly for a present key, and Get returns the last value
\* put for a present key and (0, false) otherwise.
C29_LeafCodec ==
  LET count == GetKeyCount(TheLeaf)
  IN /\ ~TheLeaf.panic
     /\ \A i \in 1..(count - 1) : TheLeaf.keys[i] < TheLeaf.keys[i + 1]
     /\ Len(TheLeaf.vals) = count
     /\ SeqRange(TheLeaf.keys) = DOMAIN ref
     /\ count = Cardinality(DOMAIN ref)
     /\ \A k \in LeafKeys : Leaf_Get(TheLeaf, k) = RefFind(k)
     /\ \A k \in LeafKeys : Leaf_Delete(TheLeaf, k).deleted = (k \in DOMAIN ref)
     /\ \A k \in LeafKeys :
          ~Leaf_IsFull(TheLeaf) \/ k \in DOMAIN ref =>
            /\ Leaf_PutInserted(TheLeaf, k) = (k \notin DOMAIN ref)
            /\ \A v \in 0..MaxVal :
                 GetKeyCount(Leaf_Put(TheLeaf, k, v)) =
                   IF k \in DOMAIN ref THEN count ELSE count + 1
     /\ dir \in {"inserted", "updated"} => count >= 1
     /\ dir = "deleted" => count < MaxLeafKeys

\* a full leaf whose keys are not consecutive, one of them with the value 0,
\* right after an overwrite
C29_Witness ==
  /\ Leaf_IsFull(TheLeaf)
  /\ dir = "updated"
  /\ \E k \in DOMAIN ref : ref[k] = 0
  /\ \E k \in LeafKeys : k \notin DOMAIN ref /\ k < TheLeaf.keys[MaxLeafKeys]
                         /\ k > TheLeaf.keys[1]

\* C30: Split of a leaf with at least two entries keeps the entries
\* [0, count/2) and moves the entries [count/2, count), in order, to the new
\* leaf; the counts add up, the separator returned is the first key of the
\* new leaf, every key left is below it and every key moved is at or above
\* it, and the new leaf takes over the next-leaf pointer of the old one.
C30_LeafSplit ==
  LET count == GetKeyCount(TheLeaf)
      mid == count \div 2
      Halves(sp) ==
        /\ sp.node.keys = [i \in 1..mid |-> TheLeaf.keys[i]]
        /\ sp.node.vals = [i \in 1..mid |-> TheLeaf.vals[i]]
        /\ sp.newNode.keys = [i \in 1..(count - mid) |-> TheLeaf.keys[mid + i]]
        /\ sp.newNode.vals = [i \in 1..(count - mid) |-> TheLeaf.vals[mid + i]]
        /\ GetKeyCount(sp.node) + GetKeyCount(sp.newNode) = count
        /\ GetKeyCount(sp.node) >= 1
        /\ sp.key = sp.newNode.keys[1]
        /\ \A k \in SeqRange(sp.node.keys) : k < sp.key
        /\ \A k \in SeqRange(sp.newNode.keys) : k >= sp.key
        /\ getNextLeaf(sp.newNode) = getNextLeaf(TheLeaf)
        /\ GetNodeType(sp.newNode) = NodeTypeLeaf
  IN count >= 2 => Halves(Leaf_Split(TheLeaf))

\* a full leaf (an odd count) with a successor
C30_Witness ==
  /\ GetKeyCount(TheLeaf) = MaxLeafKeys
  /\ getNextLeaf(TheLeaf) # 0
  /\ dir = "inserted"

(***************************************************************************)
(* One internal node on its own: InitRoot with any separator and children, *)
(* then Insert of a separator the node does not hold, while it has room,   *)
(* and DeleteKeyAt of any index, down to no key at all.                    *)
(***************************************************************************)
NodeKeys == 0..MaxNodeKey
ChildIDs == 1..MaxChildID
TheNode == GetPage(db, LeafPage)

InitInternal ==
  /\ \E key \in NodeKeys, l \in ChildIDs, r \in ChildIDs :
       db = SetPage(AllocatePage(Open(FreshFile).st).st, LeafPage,
                    InitRoot(NewInternalNode(ZeroPage), l, r, key))
  /\ ref = <<>>
  /\ dir = "none"
  /\ loaded = 0
  /\ ops = 0
  /\ budget = 0
  /\ mt = bt_Open(bp_FreshFile).st
  /\ mref = [r \in RootIDs |-> <<>>]
  /\ roots = {}
  /\ phase = "open"
  /\ closedFrom = bt_Open(bp_FreshFile).st
  /\ mu = [readers |-> {}, writer |-> NoThread]
  /\ pc = [t \in Threads |-> "idle"]
  /\ job = [t \in Threads |-> NoJob]

DoInternalInsert(key, rightChild) ==
  /\ ~Internal_IsFull(TheNode)
  /\ key \notin SeqRange(TheNode.keys)
  /\ db' = SetPage(db, LeafPage, Internal_Insert(TheNode, key, rightChild))
  /\ dir' = "inserted"
  /\ UNCHANGED <<ref, loaded, ops, budget>>
  /\ UNCHANGED <<mvars, tvars>>

DoDeleteKeyAt(idx) ==
  /\ idx < GetKeyCount(TheNode)
  /\ db' = SetPage(db, LeafPage, DeleteKeyAt(TheNode, idx))
  /\ dir' = "deleted"
  /\ UNCHANGED <<ref, loaded, ops, budget>>
  /\ UNCHANGED <<mvars, tvars>>

NextInternal ==
  \/ \E key \in NodeKeys, c \in ChildIDs : DoInternalInsert(key, c)
  \/ \E idx \in 0..(MaxInternalKeys - 1) : DoDeleteKeyAt(idx)

SpecInternal == InitInternal /\ [][NextInternal]_vars

\* C31: Split of an internal node with count keys, mid = count/2, keeps the
\* keys [0, mid) and the children [0, mid], moves the keys [mid+1, count) and
\* the children [mid+1, count] in order to the new node and returns key mid,
\* which is in neither node: the key counts add up to count - 1, the child
\* counts to count + 1, every key left is below the promoted key and every
\* key moved is above it.
C31_InternalSplit ==
  LET count == GetKeyCount(TheNode)
      mid == count \div 2
      Halves(sp) ==
        /\ sp.key = TheNode.keys[mid + 1]
        /\ sp.node.keys = [i \in 1..mid |-> TheNode.keys[i]]
        /\ sp.node.children = [i \in 1..(mid + 1) |-> TheNode.children[i]]
        /\ sp.newNode.keys = [i \in 1..(count - mid - 1) |-> TheNode.keys[mid + 1 + i]]
        /\ sp.newNode.children =
             [i \in 1..(count - mid) |-> TheNode.children[mid + 1 + i]]
        /\ GetKeyCount(sp.node) + GetKeyCount(sp.newNode) = count - 1
        /\ Len(sp.node.children) + Len(sp.newNode.children) = count + 1
        /\ sp.key \notin SeqRange(sp.node.keys) \cup SeqRange(sp.newNode.keys)
        /\ \A k \in SeqRange(sp.node.keys) : k < sp.key
        /\ \A k \in SeqRange(sp.newNode.keys) : k > sp.key
        /\ GetNodeType(sp.newNode) = NodeTypeInternal
  IN count >= 1 => Halves(Internal_Split(TheNode))

\* a full node, reached by an Insert, whose children are not all the same
C31_Witness ==
  /\ Internal_IsFull(TheNode)
  /\ dir = "inserted"
  /\ Cardinality(SeqRange(TheNode.children)) = MaxChildID

\* the number of separators of the node that are <= k
SeparatorsUpTo(k) == Cardinality({i \in 1..GetKeyCount(TheNode) : TheNode.keys[i] <= k})

\* C32: for an internal node with ascending separators s[0..n-1] and
\* children c[0..n], Search(k) is the number of separators <= k, that is the
\* first index i with s[i] > k, or n; GetChildForKey(k) is c[Search(k)]: a
\* key equal to a separator goes to the child right of it, a key below s[0]
\* to c[0] and a key >= s[n-1] to c[n].
C32_DescentRule ==
  LET n == GetKeyCount(TheNode)
      s == TheNode.keys
      c == TheNode.children
      Rule(k, idx) ==
        /\ idx = SeparatorsUpTo(k)
        /\ idx \in 0..n
        /\ idx < n => s[idx + 1] > k
        /\ \A i \in 1..idx : s[i] <= k
        /\ GetChildForKey(TheNode, k) = c[idx + 1]
        /\ \A i \in 1..n : k = s[i] => idx = i /\ GetChildForKey(TheNode, k) = c[i + 1]
        /\ n >= 1 /\ k < s[1] => GetChildForKey(TheNode, k) = c[1]
        /\ n >= 1 /\ k >= s[n] => GetChildForKey(TheNode, k) = c[n + 1]
  IN /\ \A i \in 1..(n - 1) : s[i] < s[i + 1]
     /\ Len(c) = n + 1
     /\ \A k \in 0..(MaxNodeKey + 1) : Rule(k, Internal_Search(TheNode, k))

\* a full node whose separators leave a gap and start above the smallest
\* key, with two different children around a separator, after a DeleteKeyAt
\* and a new Insert
C32_Witness ==
  /\ Internal_IsFull(TheNode)
  /\ dir = "inserted"
  /\ TheNode.keys[1] > 0
  /\ TheNode.keys[MaxInternalKeys] < MaxNodeKey
  /\ \E i \in 1..MaxInternalKeys : TheNode.children[i] # TheNode.children[i + 1]


(***************************************************************************)
(* Delete below the root.                                                  *)
(***************************************************************************)
\* the delete of key k in the subtree of the internal node id reports what
\* the delete in child childIdx of that node reports
DeleteGoesTo(id, k, childIdx) ==
  deleteRecursive(db, id, k).deleted
    = deleteRecursive(db, GetChild(GetPage(db, id), childIdx), k).deleted

\* C33 as stated: at an internal node Delete(k) descends into the child found
\* by "first separator >= k", so that a key equal to a separator is deleted
\* from the child on the left of that separator
C33_DeleteRoutesLeft ==
  \A id \in InternalNodes(db) : \A k \in Keys :
    DeleteGoesTo(id, k, Internal_Search_GE(GetPage(db, id), k))

\* C33: at an internal node Delete(k) descends into the child found by
\* Search, "first separator > k", the child Find descends into: a key equal
\* to a separator is deleted from the child on the right of that separator,
\* and the child on its left does not hold it
C33_DeleteDescent ==
  \A id \in InternalNodes(db) : \A k \in Keys :
    LET data == GetPage(db, id)
    IN /\ DeleteGoesTo(id, k, Internal_Search(data, k))
       /\ k \in SeqRange(data.keys) /\ k \in DOMAIN ref
            => /\ Internal_Search(data, k) = Internal_Search_GE(data, k) + 1
               /\ deleteRecursive(db, id, k).deleted
               /\ Find(Delete(db, k).st, k) = NotFound
               /\ ~deleteRecursive(db, GetChild(data, Internal_Search_GE(data, k)), k).deleted

\* an internal root with two separators that are both stored keys
C33_Witness ==
  /\ RootIsInternal
  /\ GetKeyCount(GetPage(db, RootPage(db))) >= 2
  /\ \A k \in SeqRange(GetPage(db, RootPage(db)).keys) : Present(k)
  /\ ops >= 1

\* what handleUnderflow(parent, childIdx) is to do in store st according to
\* the order left borrow, right borrow, merge left, merge right
UnderflowPlan(st, parentID, childIdx) ==
  LET parent == GetPage(st, parentID)
      child == GetPage(st, GetChild(parent, childIdx))
      min == IF GetNodeType(child) = NodeTypeLeaf THEN MinLeafKeys ELSE MinInternalKeys
      hasLeft == childIdx > 0
      hasRight == childIdx < GetKeyCount(parent)
      Lends(i) == GetKeyCount(GetPage(st, GetChild(parent, i))) > min
  IN IF hasLeft /\ Lends(childIdx - 1) THEN "borrowLeft"
     ELSE IF hasRight /\ Lends(childIdx + 1) THEN "borrowRight"
     ELSE IF hasLeft THEN "mergeLeft"
     ELSE "mergeRight"

\* store after is store st with the underflow of child childIdx of page
\* parentID handled as plan says
Handled(st, parentID, childIdx, plan, after) ==
  LET parent == GetPage(st, parentID)
      childID == GetChild(parent, childIdx)
      isLeaf == GetNodeType(GetPage(st, childID)) = NodeTypeLeaf
      Cnt(s, id) == GetKeyCount(GetPage(s, id))
      Borrow(from) ==
        /\ GetKeyCount(GetPage(after, parentID)) = GetKeyCount(parent)
        /\ GetPage(after, parentID).children = parent.children
        /\ FreeListSeq(after) = FreeListSeq(st)
        /\ Cnt(after, childID) = Cnt(st, childID) + 1
        /\ Cnt(after, from) = Cnt(st, from) - 1
        /\ \A id \in 1..(PageCount(st) - 1) :
             id \notin {parentID, childID, from} => GetPage(after, id) = GetPage(st, id)
      \* the pair keep, gone around separator sepIdx becomes the page keep
      Merge(keep, gone, sepIdx) ==
        /\ GetPage(after, parentID).keys = RemoveAt(parent.keys, sepIdx)
        /\ GetPage(after, parentID).children = RemoveAt(parent.children, sepIdx + 1)
        /\ gone = GetChild(parent, sepIdx + 1)
        /\ keep = GetChild(parent, sepIdx)
        /\ FreeListSeq(after) = <<gone>> \o FreeListSeq(st)
        /\ Cnt(after, keep) = Cnt(st, keep) + Cnt(st, gone) + (IF isLeaf THEN 0 ELSE 1)
        /\ \A id \in 1..(PageCount(st) - 1) :
             id \notin {parentID, keep, gone} => GetPage(after, id) = GetPage(st, id)
  IN /\ PageCount(after) = PageCount(st)
     /\ plan = "borrowLeft" => Borrow(GetChild(parent, childIdx - 1))
     /\ plan = "borrowRight" => Borrow(GetChild(parent, childIdx + 1))
     /\ plan = "mergeLeft" => Merge(GetChild(parent, childIdx - 1), childID, childIdx - 1)
     /\ plan = "mergeRight" => Merge(childID, GetChild(parent, childIdx + 1), childIdx)

\* the delete of key k below the internal node id leaves the child it went
\* into under its minimum, and plan is what handleUnderflow is then to do
UnderflowAt(id, k, plan) ==
  LET data == GetPage(db, id)
      childIdx == Internal_Search(data, k)
      Is(r) == r.deleted /\ r.underflow /\ UnderflowPlan(r.st, id, childIdx) = plan
  IN Is(deleteRecursive(db, GetChild(data, childIdx), k))

\* every underflow met by the delete of key k in the tree of db is handled
\* in that order and with those effects
UnderflowsHandled(k) ==
  \A id \in InternalNodes(db) :
    LET data == GetPage(db, id)
        childIdx == Internal_Search(data, k)
        Ok(r) == r.deleted /\ r.underflow
                   => Handled(r.st, id, childIdx, UnderflowPlan(r.st, id, childIdx),
                              handleUnderflow(r.st, id, childIdx))
    IN Ok(deleteRecursive(db, GetChild(data, childIdx), k))

\* C34: on every Delete, a child left under its minimum by a delete is
\* refilled from the left sibling when there is one with more than the
\* minimum (also when the right one could lend), else from such a right
\* sibling, else merged with the left sibling when there is one, else with
\* the right one; a borrow moves one entry and leaves the parent's key count
\* and children, page_count and the free list as they were; a merge removes
\* one separator and the pointer to the right page of the pair from the
\* parent and puts that page, and no other, on the free list
C34_UnderflowOrder ==
  [][\A k \in DOMAIN ref \ DOMAIN ref' : UnderflowsHandled(k)]_vars

\* a tree of three levels where one delete makes an internal node merge and
\* another makes a leaf borrow from the left although the right could lend
C34_Witness ==
  /\ \E id \in InternalNodes(db) \ {RootPage(db)} : \E k \in DOMAIN ref :
       LET data == GetPage(db, id)
           i == Internal_Search(data, k)
       IN /\ UnderflowAt(id, k, "borrowLeft")
          /\ i < GetKeyCount(data)
          /\ GetKeyCount(GetPage(db, GetChild(data, i + 1))) > MinLeafKeys
  /\ \E k \in DOMAIN ref :
       \/ UnderflowAt(RootPage(db), k, "mergeLeft")
       \/ UnderflowAt(RootPage(db), k, "mergeRight")

(***************************************************************************)
(* The root after Delete.                                                  *)
(***************************************************************************)
\* Delete(key) on store st did to the root what the root left by
\* deleteRecursive, store r.st, asks for
RootShrunk(st, key, r, after) ==
  LET rootID == RootPage(st)
      rootData == GetPage(r.st, rootID)
      Freed(newRoot) ==
        /\ RootPage(after) = newRoot
        /\ FreeListSeq(after) = <<rootID>> \o FreeListSeq(r.st)
        /\ \A id \in 1..(PageCount(st) - 1) :
             id # rootID => GetPage(after, id) = GetPage(r.st, id)
  IN IF GetKeyCount(rootData) > 0 THEN after = r.st /\ RootPage(after) = rootID
     ELSE IF GetNodeType(rootData) = NodeTypeInternal
     THEN Len(rootData.children) = 1 /\ Freed(GetChild(rootData, 0))
     ELSE Freed(0)

\* C35: single-key engine: the root of a tree that holds a key is a leaf
\* with at least one entry or an internal node with at least one key, and
\* the tree without keys has root page 0 again; a Delete that leaves an
\* internal root without keys makes its only child the root and frees the
\* old root page, one that empties a root leaf frees it and sets the root
\* page to 0, and any other Delete leaves the root page as deleteRecursive
\* left it, below the minimum or not: the root is never refilled or merged
C35_RootShrink ==
  /\ RootPage(db) # 0 => GetKeyCount(GetPage(db, RootPage(db))) >= 1
  /\ RootPage(db) = 0 <=> DOMAIN ref = {}
  /\ \A k \in DOMAIN ref :
       LET Ok(r, d) == r.deleted /\ d.deleted /\ RootShrunk(db, k, r, d.st)
       IN Ok(deleteRecursive(db, RootPage(db), k), Delete(db, k))

\* the delete that left an internal root without keys or emptied the tree
RootShrinksWith(k) ==
  LET Is(r) == GetKeyCount(GetPage(r.st, RootPage(db))) = 0
  IN Is(deleteRecursive(db, RootPage(db), k))

\* what is left of a tree of more than MaxDrainAny keys: an internal root
\* with one key, below the minimum of two, over two leaves of one entry: the
\* next delete replaces the root by the merged leaf
C35_Witness ==
  /\ dir = "drain"
  /\ loaded > MaxDrainAny
  /\ RootIsInternal
  /\ GetKeyCount(GetPage(db, RootPage(db))) < MinInternalKeys
  /\ Cardinality(DOMAIN ref) = 2
  /\ \A k \in DOMAIN ref : RootShrinksWith(k)

(***************************************************************************)
(* Height.                                                                 *)
(***************************************************************************)
RECURSIVE DepthsUnder(_, _, _)
\* the distances from page pageID to the leaves of its subtree
DepthsUnder(st, pageID, fuel) ==
  LET data == GetPage(st, pageID)
  IN IF IsNil(data) \/ fuel = 0 THEN {-1}
     ELSE IF GetNodeType(data) = NodeTypeLeaf THEN {0}
     ELSE UNION {{d + 1 : d \in DepthsUnder(st, GetChild(data, i), fuel - 1)} :
                 i \in 0..GetKeyCount(data)}

LeafDepths(st) ==
  IF RootPage(st) = 0 THEN {} ELSE DepthsUnder(st, RootPage(st), Len(st.pages) + 1)

\* the distance from the root to the leaves; 0 for the tree without a root
Height(st) == IF LeafDepths(st) = {} THEN 0 ELSE CHOOSE d \in LeafDepths(st) : TRUE

\* a step from db to db' changes the height as its Insert or Delete says
HeightStep ==
  LET rootID == RootPage(db)
      h == Height(db)
      h2 == Height(db')
      newRoot == GetPage(db', RootPage(db'))
      \* r: what insert returned for the old root
      Grew(r) ==
        IF r.id # 0
        THEN /\ h2 = h + 1
             /\ RootPage(db') \notin {0, rootID, r.id}
             /\ GetNodeType(newRoot) = NodeTypeInternal
             /\ newRoot.keys = <<r.key>>
             /\ newRoot.children = <<rootID, r.id>>
        ELSE h2 = h /\ RootPage(db') = rootID
      \* r: what deleteRecursive returned for the old root
      Shrunk(r) ==
        LET rootData == GetPage(r.st, rootID)
        IN IF GetNodeType(rootData) = NodeTypeInternal /\ GetKeyCount(rootData) = 0
           THEN /\ h2 = h - 1
                /\ rootData.children = <<RootPage(db')>>
                /\ FreeListSeq(db')[1] = rootID
           ELSE h2 = h
  IN /\ \A k \in DOMAIN ref' \ DOMAIN ref :
          IF rootID = 0 THEN h2 = 0
          ELSE Grew(insert(db, rootID, k, ref'[k]))
     /\ \A k \in DOMAIN ref \ DOMAIN ref' : Shrunk(deleteRecursive(db, rootID, k))
     /\ DOMAIN ref' = DOMAIN ref => h2 = h

\* C36: single-key engine: in every tree all leaves are at the same distance
\* from the root; an Insert raises that distance by one exactly when the
\* root itself splits, the new root being an internal node with one
\* separator over the old root and the page split off it, and a Delete
\* lowers it by one exactly when it leaves an internal root without keys,
\* which its only child replaces; no other step changes it
C36_UniformDepth ==
  /\ [](Cardinality(LeafDepths(db)) <= 1 /\ -1 \notin LeafDepths(db))
  /\ [][HeightStep]_vars

\* a tree of three levels, grown by two splits of the root, that the delete
\* of one of its keys brings back to two levels
C36_Witness ==
  /\ Height(db) = 2
  /\ ops < budget
  /\ \E k \in DOMAIN ref : Height(Delete(db, k).st) = 1

(***************************************************************************)
(* Insert when the file cannot grow.  AllocatePage returns an error when   *)
(* it has to call Grow and Grow fails; every caller returns the error at   *)
(* once, leaving what it wrote before.                                     *)
(***************************************************************************)
\* the next AllocatePage on store st calls Grow
GrowNeeded(st) ==
  st.meta.FreeList = 0 /\ (st.meta.PageCount + 1) * PageSize > st.size

Failed(st) == [st |-> st, key |-> 0, id |-> 0, err |-> TRUE]
Returned(r) == [st |-> r.st, key |-> r.key, id |-> r.id, err |-> FALSE]

RECURSIVE insert_GrowFails(_, _, _, _)
\* insert(pageID, key, value) with every Grow failing
insert_GrowFails(st, pageID, key, value) ==
  LET data == GetPage(st, pageID)
      \* r: what the insert into the child returned
      After(r) ==
        IF r.err THEN r
        ELSE IF r.id # 0 /\ Internal_IsFull(GetPage(r.st, pageID)) /\ GrowNeeded(r.st)
        THEN Failed(r.st)
        ELSE Returned(insertInternal(st, pageID, key, value))
  IN IF IsNil(data) THEN Failed(st)
     ELSE IF GetNodeType(data) = NodeTypeLeaf
     THEN IF Leaf_IsFull(data) /\ ~Leaf_Get(data, key).found /\ GrowNeeded(st)
          THEN Failed(st)
          ELSE Returned(insertLeaf(st, pageID, key, value))
     ELSE After(insert_GrowFails(st, GetChildForKey(data, key), key, value))

\* Insert(key, value) with every Grow failing: the store left and whether an
\* error was returned
Insert_GrowFails(st, key, value) ==
  LET rootID == RootPage(st)
      After(r) ==
        IF r.err THEN [st |-> r.st, err |-> TRUE]
        ELSE IF r.id # 0 /\ GrowNeeded(r.st) THEN [st |-> r.st, err |-> TRUE]
        ELSE [st |-> Insert(st, key, value), err |-> FALSE]
  IN IF rootID = 0
     THEN IF GrowNeeded(st) THEN [st |-> st, err |-> TRUE]
          ELSE [st |-> Insert(st, key, value), err |-> FALSE]
     ELSE After(insert_GrowFails(st, rootID, key, value))

\* the pages of store st that are neither in the tree nor on the free list
LostPages(st) ==
  (1..(PageCount(st) - 1)) \ (SeqRange(TreeNodes(st)) \cup FreeSet(st))

\* store after holds the tree of store st
SameTree(st, after) ==
  /\ \A j \in Keys : Find(after, j) = Find(st, j)
  /\ FindRange(after, 0, MaxUint64, 0) = FindRange(st, 0, MaxUint64, 0)
  /\ LostPages(after) = {}

\* C37: single-key engine: an Insert that returns an error because the file
\* could not grow leaves the tree as it was: Find returns what it returned
\* before for every key, FindRange yields the same sequence, and every page
\* is in the tree or on the free list
C37_InsertFailureAtomic ==
  \A k \in Keys, v \in Values :
    LET Ok(r) == r.err => SameTree(db, r.st)
    IN Ok(Insert_GrowFails(db, k, v))

(***************************************************************************)
(* Capacity.                                                               *)
(***************************************************************************)
\* every node of the tree of store st is within its capacity, and no Put
\* has met a full leaf
WithinCapacity(st) ==
  /\ \A id \in SeqRange(TreeNodes(st)) :
       LET data == GetPage(st, id)
       IN IF GetNodeType(data) = NodeTypeLeaf
          THEN GetKeyCount(data) <= MaxLeafKeys /\ Len(data.vals) = GetKeyCount(data)
          ELSE /\ GetKeyCount(data) <= MaxInternalKeys
               /\ Len(data.children) = GetKeyCount(data) + 1
  /\ \A id \in 1..(PageCount(st) - 1) : ~GetPage(st, id).panic

\* the merge handleUnderflow performs in store st for child childIdx of page
\* parentID fits into one node
MergeFits(st, parentID, childIdx) ==
  LET parent == GetPage(st, parentID)
      leftIdx == IF childIdx > 0 THEN childIdx - 1 ELSE childIdx
      left == GetPage(st, GetChild(parent, leftIdx))
      right == GetPage(st, GetChild(parent, leftIdx + 1))
  IN IF GetNodeType(left) = NodeTypeLeaf
     THEN GetKeyCount(left) + GetKeyCount(right) <= MaxLeafKeys
     ELSE GetKeyCount(left) + 1 + GetKeyCount(right) <= MaxInternalKeys

\* every merge that handleUnderflow performs during the delete of key k in
\* the tree of db fits
MergesFit(k) ==
  \A id \in InternalNodes(db) :
    LET data == GetPage(db, id)
        childIdx == Internal_Search(data, k)
        Ok(r) ==
          r.deleted /\ r.underflow
            /\ UnderflowPlan(r.st, id, childIdx) \in {"mergeLeft", "mergeRight"}
            => MergeFits(r.st, id, childIdx)
    IN Ok(deleteRecursive(db, GetChild(data, childIdx), k))

\* C38: after every Insert and Delete no leaf holds more than MaxLeafKeys
\* entries and no internal node more than MaxInternalKeys keys, and every
\* page is in the tree or on the free list; no Insert makes Put meet a
\* full leaf with a new key (the panic "leaf node is full") or loses the page
\* split off a child, which is what internal.Insert on a full node would do;
\* and every merge of handleUnderflow joins at most a full node
C38_NoOverflow ==
  /\ [](WithinCapacity(db) /\ LostPages(db) = {})
  /\ [][\A k \in DOMAIN ref \ DOMAIN ref' : MergesFit(k)]_vars

\* a tree of three levels, grown by the split of a full leaf under a full
\* root, where one insert splits a full leaf again and one delete merges two
\* internal nodes into a full one
C38_Witness ==
  /\ Height(db) = 2
  /\ ops < budget
  /\ \E k \in Keys \ DOMAIN ref : Len(TreeNodes(Insert(db, k, 0))) > Len(TreeNodes(db))
  /\ \E k \in DOMAIN ref :
       \E id \in InternalNodes(Delete(db, k).st) \ {RootPage(db)} :
          /\ GetKeyCount(GetPage(db, id)) < MaxInternalKeys
          /\ GetKeyCount(GetPage(Delete(db, k).st, id)) = MaxInternalKeys

(***************************************************************************)
(* Close beside the operations of other threads.  Close takes no tree      *)
(* guard: it locks the pager only while it unmaps and closes the file.     *)
(* phase tells whether the file is mapped.  Find is cut once more, between *)
(* the GetPage of the root page and the first read through the window it   *)
(* returned.  After Close GetPage returns nil; a window obtained before    *)
(* points into unmapped memory, and a read through it has no defined       *)
(* outcome: a fault that ends the program, or any result.                  *)
(***************************************************************************)
Mapped == phase = "open"
\* a fault in thread t, at position from, ends the program
Fault(t, from) ==
  /\ pc[t] = from
  /\ pc' = [u \in Threads |-> "fault"]
  /\ UNCHANGED <<svars, ops, budget, mvars, mu, job>>

\* Close(): Pager.Close, MMap.Close
Close(t) ==
  /\ pc[t] = "idle"
  /\ Mapped
  /\ phase' = "closed"
  /\ UNCHANGED <<svars, ops, budget, mt, mref, roots, closedFrom, tvars>>

\* the GetPage of the root page in search
FindGetPage(t) ==
  /\ IF job[t].root = 0 \/ ~Mapped
     THEN ReadStep(t, "findSearch", "findDone", [job[t] EXCEPT !.result = NotFound])
     ELSE ReadStep(t, "findSearch", "findWindow", job[t])
  /\ UNCHANGED mu

\* the rest of search, from the first read through the window
FindRead(t) ==
  /\ pc[t] = "findWindow"
  /\ UNCHANGED mu
  /\ IF Mapped
     THEN ReadStep(t, "findWindow", "findDone",
                   [job[t] EXCEPT !.result = search(db, job[t].root, job[t].key)])
     ELSE \/ Fault(t, "findWindow")
          \/ \E v \in Values, f \in BOOLEAN :
               ReadStep(t, "findWindow", "findDone",
                        [job[t] EXCEPT !.result = [value |-> v, found |-> f]])

\* a writer that finds the file unmapped: insert returns the error of a nil
\* page and deleteRecursive returns false; the first leaf of an empty tree,
\* a new root and the look at the root after a delete go through a nil
\* slice and panic
ClosedWrite(t) ==
  /\ ~Mapped
  /\ \/ /\ pc[t] = "insertTree" /\ RootPage(db) # 0
        /\ UNCHANGED <<db, ref>>
        /\ WriteUnlock(t, "insertTree")
     \/ /\ pc[t] = "deleteTree" /\ RootPage(db) # 0
        /\ Step(t, "deleteTree", "deleteRoot", [job[t] EXCEPT !.root = RootPage(db)])
        /\ UNCHANGED <<svars, ops, budget, mvars, mu>>
     \/ /\ \/ pc[t] = "insertTree" /\ RootPage(db) = 0
           \/ pc[t] = "insertRoot" /\ job[t].newChildID # 0
           \/ pc[t] = "deleteRoot" /\ job[t].root # 0 /\ job[t].deleted
        /\ Fault(t, pc[t])

\* the steps of a writer that touch no page, or find the file mapped
MappedWrite(t) ==
  \/ Mapped /\ InsertTree(t)
  \/ (Mapped \/ job[t].newChildID = 0) /\ InsertRoot(t)
  \/ (Mapped \/ RootPage(db) = 0) /\ DeleteTree(t)
  \/ (Mapped \/ job[t].root = 0 \/ ~job[t].deleted) /\ DeleteRoot(t)

NextClose ==
  \E t \in Threads :
    \/ \E k \in ThreadKeys : FindLock(t, k)
    \/ FindRoot(t)
    \/ FindGetPage(t)
    \/ FindRead(t)
    \/ ReadUnlock(t)
    \/ \E k \in ThreadKeys : InsertLock(t, k)
    \/ \E k \in ThreadKeys : DeleteLock(t, k)
    \/ MappedWrite(t)
    \/ ClosedWrite(t)
    \/ Close(t)

\* single-key engine: two threads, one of which may close the tree
SpecClose == InitThreads /\ [][NextClose]_vars

\* the threads that hold a window obtained from GetPage and not yet read
WindowHeld == {t \in Threads : pc[t] = "findWindow"}

\* C39: Close never unmaps the file while an operation of another thread is
\* between a GetPage and its last access to the window returned: no thread
\* holds a window into a mapping that Close has unmapped
C39_CloseExcludes == ~Mapped => WindowHeld = {}

(***************************************************************************)
(* FindRange and its callback.  FindRange takes the shared guard, calls    *)
(* fn for every entry of the range with the guard held, and releases it    *)
(* when scanInternal returns.  pc tells what fn does: at "scan" it only    *)
(* returns true or false, at "scanRe" it calls Insert, Delete or           *)
(* Checkpoint of the same tree, which starts with Lock.  A call of Lock or *)
(* RLock is cut into the call and the return.  sync.RWMutex: Lock returns  *)
(* when no reader and no writer holds the guard; RLock returns when no     *)
(* writer holds it and no Lock is waiting.                                 *)
(***************************************************************************)
InitRange == InitWith(MaxRangeOps)
RangeKeys == 0..MaxRangeKey

LockWaitAt == {"insertWait", "deleteWait", "checkpointWait", "cbWait"}
PendingWriters == {t \in Threads : pc[t] \in LockWaitAt}

\* the invocations of fn by a scan of every key
ScanCalls == scanInternal(db, 0, MaxUint64, 0).calls

\* FindRange(0, MaxUint64, fn) is called; re: fn calls back into the tree
RangeCall(t, re) ==
  /\ Step(t, "idle", IF re THEN "scanReWait" ELSE "scanWait", NoJob)
  /\ UNCHANGED <<svars, ops, budget, mvars, mu>>

\* t.mu.RLock() returns
RLockAcquire(t) ==
  /\ pc[t] \in {"scanWait", "scanReWait"}
  /\ RLockFree(mu)
  /\ PendingWriters = {}
  /\ mu' = RLock(mu, t)
  /\ Step(t, pc[t], IF pc[t] = "scanWait" THEN "scan" ELSE "scanRe", job[t])
  /\ UNCHANGED <<svars, ops, budget, mvars>>

\* scanInternal up to the next invocation of fn and through it, or to its
\* return when no entry is left
ScanStep(t) ==
  /\ pc[t] \in {"scan", "scanRe"}
  /\ UNCHANGED <<svars, ops, budget, mvars, mu>>
  /\ IF job[t].count >= Len(ScanCalls) THEN Step(t, pc[t], "scanDone", job[t])
     ELSE IF pc[t] = "scan"
     THEN \/ Step(t, "scan", "scan", [job[t] EXCEPT !.count = @ + 1])
          \/ Step(t, "scan", "scanDone", [job[t] EXCEPT !.count = @ + 1])
     ELSE Step(t, "scanRe", "cbWait",
               [job[t] EXCEPT !.key = ScanCalls[job[t].count + 1].Key])

\* FindRange returns: the deferred RUnlock
ScanReturn(t) ==
  /\ mu' = RUnlock(mu, t)
  /\ Step(t, "scanDone", "idle", NoJob)
  /\ UNCHANGED <<svars, ops, budget, mvars>>

\* Insert(k, v), Delete(k) or Checkpoint() is called
WriteCall(t, op, k) ==
  /\ ops < budget
  /\ ops' = ops + 1
  /\ Step(t, "idle", op, [NoJob EXCEPT !.key = k])
  /\ UNCHANGED <<svars, budget, mvars, mu>>

\* t.mu.Lock() returns, in a call of the thread or of its callback
LockAcquire(t) ==
  /\ pc[t] \in LockWaitAt
  /\ LockFree(mu)
  /\ mu' = Lock(mu, t)
  /\ Step(t, pc[t],
          CASE pc[t] = "insertWait" -> "insertHeld"
            [] pc[t] = "deleteWait" -> "deleteHeld"
            [] pc[t] = "checkpointWait" -> "checkpointHeld"
            [] pc[t] = "cbWait" -> "cbHeld",
          job[t])
  /\ UNCHANGED <<svars, ops, budget, mvars>>

\* the body of the writing call and its deferred Unlock; fn then returns
\* true and the scan goes on
WriteDone(t) ==
  LET k == job[t].key
      v == (k % 2) * MaxVal
  IN /\ pc[t] \in {"insertHeld", "deleteHeld", "checkpointHeld", "cbHeld"}
     /\ \/ /\ pc[t] \in {"insertHeld", "cbHeld"}
           /\ db' = Insert(db, k, v) /\ ref' = RefPut(ref, k, v)
        \/ /\ pc[t] \in {"deleteHeld", "cbHeld"}
           /\ db' = Delete(db, k).st /\ ref' = RefRemove(ref, k)
        \/ /\ pc[t] \in {"checkpointHeld", "cbHeld"}
           /\ db' = Checkpoint(db) /\ UNCHANGED ref
     /\ mu' = Unlock(mu)
     /\ IF pc[t] = "cbHeld"
        THEN Step(t, "cbHeld", "scanRe", [job[t] EXCEPT !.count = @ + 1])
        ELSE Step(t, pc[t], "idle", NoJob)
     /\ UNCHANGED <<dir, loaded, ops, budget, mvars>>

\* what a thread does once it is inside a call
Progress(t) ==
  \/ RLockAcquire(t)
  \/ ScanStep(t)
  \/ ScanReturn(t)
  \/ LockAcquire(t)
  \/ WriteDone(t)

NextRange ==
  \E t \in Threads :
    \/ \E re \in BOOLEAN : RangeCall(t, re)
    \/ \E op \in {"insertWait", "deleteWait", "checkpointWait"}, k \in RangeKeys :
         WriteCall(t, op, k)
    \/ RLockAcquire(t)
    \/ ScanStep(t)
    \/ ScanReturn(t)
    \/ LockAcquire(t)
    \/ WriteDone(t)

\* single-key engine: two threads that scan and write
SpecRange == InitRange /\ [][NextRange]_vars
\* the same, every thread inside a call being scheduled again and again
SpecRangeFair == SpecRange /\ \A t \in Threads : WF_vars(Progress(t))

\* the threads inside FindRange with the shared guard taken
Scanning == {t \in Threads : pc[t] \in {"scan", "scanRe", "cbWait", "cbHeld", "scanDone"}}

\* FindRange holds the shared guard from RLock to its return, through every
\* invocation of fn, so that a callback waiting in Lock waits for ever
GuardHeldThroughScan ==
  /\ [](Scanning \subseteq mu.readers)
  /\ [](\A t \in Threads : pc[t] # "cbHeld")
  /\ [][\A t \in Threads : pc[t] = "cbWait" => pc'[t] = "cbWait"]_vars

\* C40 as stated: FindRange holds the shared guard through every callback;
\* the callback that calls Insert, Delete or Checkpoint never gets the
\* exclusive guard and its FindRange never returns; every call of FindRange
\* whose callback does not call back into the tree returns
C40_PureScanReturns ==
  /\ GuardHeldThroughScan
  /\ \A t \in Threads : (pc[t] = "scanWait") ~> (pc[t] = "idle")

\* C40: FindRange holds the shared guard through every callback; the
\* callback that calls Insert, Delete or Checkpoint never gets the exclusive
\* guard and its FindRange never returns; a FindRange whose callback does
\* not call back into the tree returns once it has the guard, and every call
\* of it returns as long as no thread waits in such a callback, whose Lock
\* keeps every later RLock waiting
C40_CallbackReentrancy ==
  /\ GuardHeldThroughScan
  /\ \A t \in Threads : (pc[t] = "scan") ~> (pc[t] = "idle")
  /\ \A t \in Threads :
       (pc[t] = "scanWait") ~> (pc[t] = "idle" \/ \E u \in Threads : pc[u] = "cbWait")

\* one thread waits in the Lock of its callback, on the first entry of its
\* scan, while the other has finished a scan of the tree
C40_Witness ==
  \E t, u \in Threads :
    /\ pc[t] = "cbWait" /\ t \in mu.readers
    /\ pc[u] = "scanDone" /\ job[u].count = Cardinality(DOMAIN ref)
    /\ DOMAIN ref # {}
====
